---- MODULE Spec2Model ----
(***************************************************************************)
(* Faceted filtering engine of the Reports Dashboard (src/app.js, the      *)
(* two-phase draft/applied variant), and of its single-phase predecessor   *)
(* (src/unnamed/part_000), whose actions are those named Single...         *)
(*                                                                         *)
(* A JavaScript string is a sequence of one-character strings, so that     *)
(* trim, toLowerCase and includes are computed and not assumed.            *)
(* A JavaScript value stored in a filter descriptor is a tagged record:    *)
(* Str(s) for a string, Arr(a) for an array of strings.                    *)
(***************************************************************************)
EXTENDS Integers, Sequences, FiniteSets, TLC

VARIABLES
    rawRows,            \* let rawRows: the parsed rows, in source order
    filteredRows,       \* let filteredRows: the matched and sorted rows
    columns,            \* let columns: the ordered column names
    appliedState,       \* let appliedState: { global, columns }
    draftState,         \* let draftState: { global, columns }
    filterState,        \* let filterState: { global, columns }, the one filter
                        \* state of the single-phase variant (src/unnamed/part_000)
    sortState,          \* let sortState: { col, dir }
    btnApplyDisabled,   \* btnApply.disabled
    controlsEnabled,    \* enableControls(true) has run (the other controls)
    ui,                 \* the filter controls now in filtersContainer
    presets,            \* localStorage[PRESETS_KEY], parsed
    pending,            \* number of Papa.parse calls not yet completed
    lastOp,             \* the handler that ran last (history, for witnesses)
    savedViews,         \* history: what was shown when each preset saved since
                        \* the last load was saved
    raw,                \* the form of localStorage.getItem(PRESETS_KEY): "array"
                        \* (JSON.stringify of presets), "garbled" (JSON.parse
                        \* throws) or "object" (the JSON text of an object)
    presetSelect,       \* the options of presetSelect after the placeholder
    other               \* another report section of the page: its state (m), its
                        \* controls and the presets under its own storage key

vars == <<rawRows, filteredRows, columns, appliedState, draftState, sortState,
          btnApplyDisabled, controlsEnabled, ui, presets, pending, lastOp,
          savedViews, raw, presetSelect, other, filterState>>

----------------------------------------------------------------------------
(* Bounds of the model *)

\* rows of the large dataset: one more than the low-cardinality threshold
NumBigRows == 31
\* the user only ticks checkboxes among the first MaxClickIdx options of a list
MaxClickIdx == 1
\* the user only opens/closes the panels of the first MaxToggleCols columns
MaxToggleCols == 1
\* the user only clicks the headers of the first MaxSortCols columns
MaxSortCols == 1
\* file parses that may be in flight at once
MaxInFlight == 1
\* presets the user saves between two loads
MaxSaved == 1
\* const RENDER_LIMIT, the number of rows the table body shows at most: 2000 in
\* the source, scaled down to the size of the datasets of the model
RENDER_LIMIT == 2

----------------------------------------------------------------------------
(* Strings *)

UpperChars == <<"A","B","C","D","E","F","G","H","I","J","K","L","M",
                "N","O","P","Q","R","S","T","U","V","W","X","Y","Z">>
LowerChars == <<"a","b","c","d","e","f","g","h","i","j","k","l","m",
                "n","o","p","q","r","s","t","u","v","w","x","y","z">>
DigitChars == <<"0","1","2","3","4","5","6","7","8","9">>

Range(s) == {s[i] : i \in DOMAIN s}

UpperSet == Range(UpperChars)
LowerSet == Range(LowerChars)
DigitSet == Range(DigitChars)

\* the position of a character in its alphabet
UpperIndex == [ch \in UpperSet |-> CHOOSE i \in DOMAIN UpperChars : UpperChars[i] = ch]
LowerIndex == [ch \in LowerSet |-> CHOOSE i \in DOMAIN LowerChars : LowerChars[i] = ch]
DigitIndex == [ch \in DigitSet |-> CHOOSE i \in DOMAIN DigitChars : DigitChars[i] = ch]

IsUpper(ch) == ch \in UpperSet
IsLower(ch) == ch \in LowerSet
IsDigit(ch) == ch \in DigitSet
IsSpace(ch) == ch = " "

LowerChar(ch) == IF IsUpper(ch) THEN LowerChars[UpperIndex[ch]] ELSE ch

\* String.prototype.toLowerCase
ToLowerCase(s) == [i \in DOMAIN s |-> LowerChar(s[i])]

RECURSIVE TrimStart(_)
TrimStart(s) == IF s # <<>> /\ IsSpace(Head(s)) THEN TrimStart(Tail(s)) ELSE s

RECURSIVE TrimEnd(_)
TrimEnd(s) ==
    IF s # <<>> /\ IsSpace(s[Len(s)]) THEN TrimEnd(SubSeq(s, 1, Len(s) - 1)) ELSE s

\* String.prototype.trim
Trim(s) == TrimEnd(TrimStart(s))

\* String.prototype.includes
Includes(hay, needle) ==
    \E i \in 0..(Len(hay) - Len(needle)) : SubSeq(hay, i + 1, i + Len(needle)) = needle

\* Array.prototype.includes on an array of strings
ArrIncludes(arr, s) == \E i \in DOMAIN arr : arr[i] = s

\* Array.prototype.join(","), as used by String(array) and by exportFilteredCsv
RECURSIVE JoinComma(_)
JoinComma(arr) ==
    IF arr = <<>> THEN <<>>
    ELSE IF Len(arr) = 1 THEN arr[1]
    ELSE arr[1] \o <<",">> \o JoinComma(Tail(arr))

----------------------------------------------------------------------------
(* JavaScript values held in a descriptor's value field *)

Str(s) == [kind |-> "str", s |-> s, a |-> <<>>]
Arr(a) == [kind |-> "arr", s |-> <<>>, a |-> a]

\* Array.isArray
IsArray(v) == v.kind = "arr"

\* String(v) for a string or an array of strings
ToStr(v) == IF v.kind = "str" THEN v.s ELSE JoinComma(v.a)

\* function normalizeValue(v), for a string cell (undefined is read as "")
normalizeValue(s) == Trim(s)

\* function normalizeValue(v), for a descriptor value
normalizeJsValue(v) == Trim(ToStr(v))

\* function toLower(v)
toLower(s) == ToLowerCase(normalizeValue(s))

\* const FORCE_MULTI_COLUMNS = new Set(["model"])
FORCE_MULTI_COLUMNS == { <<"m","o","d","e","l">> }

isForcedMulti_NoFold(col) == normalizeValue(col) \in FORCE_MULTI_COLUMNS

\* function isForcedMulti(col)
isForcedMulti(col) == ToLowerCase(normalizeValue(col)) \in FORCE_MULTI_COLUMNS

\* the null of sortState.col / excludeCol (null and "" are both falsy)
NoCol == <<>>

\* row[c], undefined read as ""
Cell(row, c) == IF c \in DOMAIN row THEN row[c] ELSE <<>>

----------------------------------------------------------------------------
(* Matching (reads the applied state) *)

\* the global-search loop of rowMatchesApplied: some column's value contains g
RECURSIVE GlobalFound(_, _, _, _)
GlobalFound(cols, row, g, i) ==
    IF i > Len(cols) THEN FALSE
    ELSE IF Includes(toLower(Cell(row, cols[i])), g) THEN TRUE
    ELSE GlobalFound(cols, row, g, i + 1)

\* the per-column loop of rowMatchesApplied
RECURSIVE ColumnsPass(_, _, _, _, _)
ColumnsPass(st, cols, row, excludeCol, i) ==
    IF i > Len(cols) THEN TRUE
    ELSE LET c == cols[i] IN
         IF excludeCol # NoCol /\ c = excludeCol
         THEN ColumnsPass(st, cols, row, excludeCol, i + 1)
         ELSE IF c \notin DOMAIN st.columns
         THEN ColumnsPass(st, cols, row, excludeCol, i + 1)
         ELSE LET f   == st.columns[c]
                  val == normalizeValue(Cell(row, c))
              IN  IF f.type = "text"
                  THEN LET q == normalizeJsValue(f.value) IN
                       IF q = <<>> THEN ColumnsPass(st, cols, row, excludeCol, i + 1)
                       ELSE IF ~Includes(toLower(val), toLower(q)) THEN FALSE
                       ELSE ColumnsPass(st, cols, row, excludeCol, i + 1)
                  ELSE IF f.type = "multi"
                  THEN LET selected == IF IsArray(f.value) THEN f.value.a ELSE <<>> IN
                       IF selected = <<>> THEN ColumnsPass(st, cols, row, excludeCol, i + 1)
                       ELSE IF ~ArrIncludes(selected, val) THEN FALSE
                       ELSE ColumnsPass(st, cols, row, excludeCol, i + 1)
                  ELSE ColumnsPass(st, cols, row, excludeCol, i + 1)

\* mutant: the multi-select branch is skipped
rowMatchesApplied_NoMulti(st, cols, row, excludeCol) ==
    LET g == toLower(st.global)
        textOnly == [global |-> st.global,
                     columns |-> [c \in {k \in DOMAIN st.columns : st.columns[k].type = "text"}
                                    |-> st.columns[c]]]
    IN  /\ (g # <<>> => GlobalFound(cols, row, g, 1))
        /\ ColumnsPass(textOnly, cols, row, excludeCol, 1)

\* mutant: a column's own filter is not excluded
rowMatchesApplied_NoExclude(st, cols, row, excludeCol) ==
    LET g == toLower(st.global) IN
    /\ (g # <<>> => GlobalFound(cols, row, g, 1))
    /\ ColumnsPass(st, cols, row, NoCol, 1)

\* function rowMatchesApplied(row, excludeCol = null)
rowMatchesApplied(st, cols, row, excludeCol) ==
    LET g == toLower(st.global) IN
    IF g # <<>> /\ ~GlobalFound(cols, row, g, 1) THEN FALSE
    ELSE ColumnsPass(st, cols, row, excludeCol, 1)

\* {}: an object without keys
EmptyMap == [v \in {} |-> 0]

\* the indexes of an array
Indexes(arr) == [i \in DOMAIN arr |-> i]

\* the elements of arr at the indexes idx, in the order of idx
PickAt(arr, idx) == [k \in DOMAIN idx |-> arr[idx[k]]]

\* arr[i] is the first occurrence of its value
FirstAt(arr, i) == \A j \in 1..(i - 1) : arr[j] # arr[i]

\* the insertion order of a Set or Map fed with arr: each value once, at the
\* place of its first occurrence
DistinctSeq(arr) == PickAt(arr, SelectSeq(Indexes(arr), LAMBDA i : FirstAt(arr, i)))

\* the Map after counts.set(v, (counts.get(v) || 0) + 1) has run for each v of
\* vals in turn: keys in insertion order, each entry the number of times its key
\* was set
CountMap(vals) ==
    [keys |-> DistinctSeq(vals),
     get  |-> [v \in Range(vals) |-> Cardinality({i \in DOMAIN vals : vals[i] = v})]]

\* normalizeValue(r[col]) for each row
ValuesOf(rows, col) == [i \in DOMAIN rows |-> normalizeValue(Cell(rows[i], col))]

\* the row gets past both "continue"s of the loop of getFacetCountsForColumn
Counted(st, cols, row, col) ==
    /\ rowMatchesApplied(st, cols, row, col)
    /\ normalizeValue(Cell(row, col)) # <<>>

\* mutant: rows with an empty value are counted too
getFacetCountsForColumn_CountEmpty(st, cols, rows, col) ==
    CountMap(ValuesOf(SelectSeq(rows, LAMBDA r : rowMatchesApplied(st, cols, r, col)), col))

\* mutant: the rows are counted whatever the applied filters
getFacetCountsForColumn_AllRows(st, cols, rows, col) ==
    CountMap(ValuesOf(SelectSeq(rows, LAMBDA r : normalizeValue(Cell(r, col)) # <<>>), col))

\* function getFacetCountsForColumn(col)
getFacetCountsForColumn(st, cols, rows, col) ==
    CountMap(ValuesOf(SelectSeq(rows, LAMBDA r : Counted(st, cols, r, col)), col))

\* the threshold of isLowCardinalityByCounts
LowCardinalityMax == 30

isLowCardinalityByCounts_NoUpper(counts) == Len(counts.keys) > 0

\* function isLowCardinalityByCounts(counts)
isLowCardinalityByCounts(counts) ==
    LET uniq == Len(counts.keys) IN uniq > 0 /\ uniq <= LowCardinalityMax

----------------------------------------------------------------------------
(* Sorting *)

\* the value of a string of decimal digits
RECURSIVE DigitsValue(_, _)
DigitsValue(s, acc) ==
    IF s = <<>> THEN acc
    ELSE DigitsValue(Tail(s), 10 * acc + (DigitIndex[Head(s)] - 1))

\* the positions of s where an exponent mark stands between two runs of digits
ExponentMarks(s) ==
    {k \in DOMAIN s : /\ s[k] \in {"e", "E"}
                        /\ 1 < k /\ k < Len(s)
                        /\ \A i \in DOMAIN s : i # k => IsDigit(s[i])}

\* Number.isFinite(Number(v)) && v !== "", for values made of letters, digits,
\* spaces and commas: a string of digits parses, and so does one with an
\* exponent, as 1e3 (the datasets hold no sign, point or radix prefix, and no
\* exponent that makes the number infinite)
IsNumeric(s) ==
    s # <<>> /\ ((\A i \in DOMAIN s : IsDigit(s[i])) \/ ExponentMarks(s) # {})

\* Number(v) of a value that IsNumeric
NumberValue(s) ==
    IF ExponentMarks(s) = {} THEN DigitsValue(s, 0)
    ELSE LET k == CHOOSE k \in ExponentMarks(s) : TRUE
         IN  DigitsValue(SubSeq(s, 1, k - 1), 0) * 10 ^ DigitsValue(SubSeq(s, k + 1, Len(s)), 0)

\* primary collation weight of a character: space, punctuation, digits, letters;
\* upper and lower case share a weight
PrimaryWeight(ch) ==
    IF IsSpace(ch) THEN 1
    ELSE IF ch = "," THEN 2
    ELSE IF IsDigit(ch) THEN 10 + DigitIndex[ch]
    ELSE IF IsLower(ch) THEN 100 + LowerIndex[ch]
    ELSE IF IsUpper(ch) THEN 100 + UpperIndex[ch]
    ELSE 50

Sign(n) == IF n < 0 THEN -1 ELSE IF n > 0 THEN 1 ELSE 0

\* length of the run of digits at the start of s
RECURSIVE DigitRunLen(_)
DigitRunLen(s) == IF s # <<>> /\ IsDigit(Head(s)) THEN 1 + DigitRunLen(Tail(s)) ELSE 0

\* a.localeCompare(b, undefined, { numeric: true, sensitivity: "base" })
RECURSIVE LocaleCompareNumericBase(_, _)
LocaleCompareNumericBase(a, b) ==
    IF a = <<>> /\ b = <<>> THEN 0
    ELSE IF a = <<>> THEN -1
    ELSE IF b = <<>> THEN 1
    ELSE IF IsDigit(Head(a)) /\ IsDigit(Head(b))
    THEN LET la == DigitRunLen(a)
             lb == DigitRunLen(b)
             na == DigitsValue(SubSeq(a, 1, la), 0)
             nb == DigitsValue(SubSeq(b, 1, lb), 0)
         IN  IF na # nb THEN Sign(na - nb)
             ELSE LocaleCompareNumericBase(SubSeq(a, la + 1, Len(a)), SubSeq(b, lb + 1, Len(b)))
    ELSE IF PrimaryWeight(Head(a)) # PrimaryWeight(Head(b))
    THEN Sign(PrimaryWeight(Head(a)) - PrimaryWeight(Head(b)))
    ELSE LocaleCompareNumericBase(Tail(a), Tail(b))

RECURSIVE PrimaryCompare(_, _)
PrimaryCompare(a, b) ==
    IF a = <<>> /\ b = <<>> THEN 0
    ELSE IF a = <<>> THEN -1
    ELSE IF b = <<>> THEN 1
    ELSE IF PrimaryWeight(Head(a)) # PrimaryWeight(Head(b))
    THEN Sign(PrimaryWeight(Head(a)) - PrimaryWeight(Head(b)))
    ELSE PrimaryCompare(Tail(a), Tail(b))

\* tie-break of two strings equal at the primary level: lower case first
RECURSIVE TertiaryCompare(_, _)
TertiaryCompare(a, b) ==
    IF a = <<>> \/ b = <<>> THEN 0
    ELSE IF Head(a) = Head(b) THEN TertiaryCompare(Tail(a), Tail(b))
    ELSE IF IsLower(Head(a)) THEN -1 ELSE 1

\* a.localeCompare(b)
LocaleCompare(a, b) ==
    LET p == PrimaryCompare(a, b) IN IF p # 0 THEN p ELSE TertiaryCompare(a, b)

\* the comparator of sortRows
CompareRows(sort, a, b) ==
    LET av  == normalizeValue(Cell(a, sort.col))
        bv  == normalizeValue(Cell(b, sort.col))
        cmp == IF IsNumeric(av) /\ IsNumeric(bv)
               THEN Sign(NumberValue(av) - NumberValue(bv))
               ELSE LocaleCompareNumericBase(av, bv)
    IN  IF sort.dir = "asc" THEN cmp ELSE -cmp

\* x put into the sorted sequence s after every element that does not follow it
RECURSIVE InsertRow(_, _, _, _)
InsertRow(sort, s, x, i) ==
    IF i > Len(s) THEN Append(s, x)
    ELSE IF CompareRows(sort, s[i], x) > 0
    THEN SubSeq(s, 1, i - 1) \o <<x>> \o SubSeq(s, i, Len(s))
    ELSE InsertRow(sort, s, x, i + 1)

\* Array.prototype.sort with the comparator of sortRows (a stable sort)
RECURSIVE StableSortRows(_, _, _, _)
StableSortRows(sort, rows, i, acc) ==
    IF i > Len(rows) THEN acc
    ELSE StableSortRows(sort, rows, i + 1, InsertRow(sort, acc, rows[i], 1))

\* mutant: the rows are returned unsorted
sortRows_Unsorted(sort, rows) == rows

\* function sortRows(rows)
sortRows(sort, rows) ==
    IF sort.col = NoCol THEN rows ELSE StableSortRows(sort, rows, 1, <<>>)

\* rawRows.filter(r => rowMatchesApplied(r, null))
FilterRows(st, cols, rows) == SelectSeq(rows, LAMBDA r : rowMatchesApplied(st, cols, r, NoCol))

----------------------------------------------------------------------------
(* Filter state *)

\* obj[k] = v
SetKey(map, k, v) == [x \in DOMAIN map \cup {k} |-> IF x = k THEN v ELSE map[x]]

\* { global: "", columns: {} }
EmptyState == [global |-> <<>>, columns |-> EmptyMap]

\* { col: null, dir: "asc" }
DefaultSort == [col |-> NoCol, dir |-> "asc"]

\* the empty value of a type
EmptyValue(type) == IF type = "multi" THEN Arr(<<>>) ELSE Str(<<>>)

\* a state with the collapsed flags deleted, as isDirty serializes it
StripCollapsed(st) ==
    [global  |-> st.global,
     columns |-> [c \in DOMAIN st.columns |->
                    [type |-> st.columns[c].type, value |-> st.columns[c].value]]]

\* function isDirty(): both states hold their keys in the same order (every key is
\* added to both by the same loop), so the JSON texts differ iff the values do
isDirty(a, d) == StripCollapsed(a) # StripCollapsed(d)

\* every descriptor of st with collapsed = true
CollapseAll(st) ==
    [st EXCEPT !.columns = [c \in DOMAIN st.columns |-> [st.columns[c] EXCEPT !.collapsed = TRUE]]]

\* the repair branch of ensureStateSchemas for an existing descriptor (collapsed
\* is always a boolean here, so the last repair line changes nothing)
RepairDescriptor(col, f) ==
    LET f1 == IF isForcedMulti(col) /\ f.type # "multi"
              THEN [f EXCEPT !.type = "multi", !.value = Arr(<<>>)] ELSE f
        f2 == IF f1.type = "multi" /\ ~IsArray(f1.value)
              THEN [f1 EXCEPT !.value = Arr(<<>>)] ELSE f1
    IN  IF f2.type = "text" /\ IsArray(f2.value) THEN [f2 EXCEPT !.value = Str(<<>>)] ELSE f2

\* the type given to a column by its facet counts
Classify(col, facetCounts) ==
    IF isForcedMulti(col) \/ isLowCardinalityByCounts(facetCounts) THEN "multi" ELSE "text"

\* the descriptor ensureStateSchemas creates for a column neither state holds
NewDescriptor(type) == [type |-> type, value |-> EmptyValue(type), collapsed |-> TRUE]

\* appliedState after the loop body of ensureStateSchemas for col
EnsureApplied(a, cols, rows, col) ==
    IF col \notin DOMAIN a.columns
    THEN [a EXCEPT !.columns = SetKey(@, col,
            NewDescriptor(Classify(col, getFacetCountsForColumn(a, cols, rows, col))))]
    ELSE [a EXCEPT !.columns[col] = RepairDescriptor(col, @)]

\* draftState after the loop body for col, a1 being the applied state after it
EnsureDraft(d, a1, col) ==
    IF col \notin DOMAIN d.columns
    THEN [d EXCEPT !.columns = SetKey(@, col, [a1.columns[col] EXCEPT !.collapsed = TRUE])]
    ELSE [d EXCEPT !.columns[col] = RepairDescriptor(col, @)]

EnsurePair(a1, d, col) == [a |-> a1, d |-> EnsureDraft(d, a1, col)]

\* the loop of ensureStateSchemas, from column i on; s = [a |-> applied, d |-> draft]
RECURSIVE EnsureLoop(_, _, _, _)
EnsureLoop(s, cols, rows, i) ==
    IF i > Len(cols) THEN s
    ELSE EnsureLoop(EnsurePair(EnsureApplied(s.a, cols, rows, cols[i]), s.d, cols[i]),
                    cols, rows, i + 1)

SetStates(m, s) == [m EXCEPT !.appliedState = s.a, !.draftState = s.d]

\* function ensureStateSchemas(), on a program state m
ensureStateSchemas(m) ==
    SetStates(m, EnsureLoop([a |-> m.appliedState, d |-> m.draftState], m.columns, m.rawRows, 1))

\* function updateApplyButtonState()
updateApplyButtonState(m) ==
    IF m.rawRows = <<>> THEN [m EXCEPT !.btnApplyDisabled = TRUE]
    ELSE [m EXCEPT !.btnApplyDisabled = ~isDirty(m.appliedState, m.draftState)]

----------------------------------------------------------------------------
(* The filter controls *)

\* counts.get(v) || 0
CountOf(counts, v) == IF v \in DOMAIN counts.get THEN counts.get[v] ELSE 0

\* the comparator of the option list: count descending, then localeCompare
OptionBefore(counts, x, y) ==
    IF CountOf(counts, y) # CountOf(counts, x) THEN CountOf(counts, y) < CountOf(counts, x)
    ELSE LocaleCompare(x, y) < 0

\* Array.from(optionSet).sort(...), optionSet holding the keys of the facet counts
\* and then the selected values
SortOptions(selected, counts) ==
    SortSeq(DistinctSeq(counts.keys \o selected), LAMBDA x, y : OptionBefore(counts, x, y))

\* the reclassification of a draft descriptor in buildFiltersUI
\* mutant: the draft descriptor keeps its type
ReclassifyDraft_Keep(col, fDraft, facetCounts) == fDraft

\* mutant: the type follows the facet counts and the value is kept
ReclassifyDraft_KeepValue(col, fDraft, facetCounts) ==
    [fDraft EXCEPT !.type = IF isForcedMulti(col) \/ isLowCardinalityByCounts(facetCounts)
                             THEN "multi" ELSE "text"]

ReclassifyDraft(col, fDraft, facetCounts) ==
    IF ~isForcedMulti(col)
    THEN LET shouldBeMulti == isLowCardinalityByCounts(facetCounts)
             f1 == IF shouldBeMulti /\ fDraft.type # "multi"
                   THEN [fDraft EXCEPT !.type = "multi", !.value = Arr(<<>>)] ELSE fDraft
         IN  IF ~shouldBeMulti /\ f1.type # "text"
             THEN [f1 EXCEPT !.type = "text", !.value = Str(<<>>)] ELSE f1
    ELSE IF fDraft.type # "multi"
    THEN [fDraft EXCEPT !.type = "multi", !.value = Arr(<<>>)]
    ELSE fDraft

\* the control buildFiltersUI renders for a column, with what its handlers close over
FilterControl(col, fDraft, facetCounts) ==
    IF fDraft.type = "text"
    THEN [col |-> col, kind |-> "text", options |-> <<>>, counts |-> facetCounts,
          selected |-> <<>>]
    ELSE LET selected == DistinctSeq(IF IsArray(fDraft.value) THEN fDraft.value.a ELSE <<>>)
         IN  [col |-> col, kind |-> "multi",
              options |-> SortOptions(selected, facetCounts),
              counts |-> facetCounts, selected |-> selected]

\* no control rendered yet
NoUI == [live |-> FALSE, filters |-> <<>>]

\* the controls rendered from the repaired state e, the applied facet counts fc
\* and the reclassified draft descriptors dc
RenderControls(e, fc, dc) ==
    [e EXCEPT !.draftState.columns = dc,
              !.ui = [live |-> TRUE,
                      filters |-> [i \in DOMAIN e.columns |->
                          FilterControl(e.columns[i], dc[e.columns[i]], fc[e.columns[i]])]]]

\* the per-column loop of buildFiltersUI: the draft types follow the facet counts
ReclassifyAll(e, fc) ==
    RenderControls(e, fc,
        [c \in DOMAIN e.draftState.columns |->
            IF c \in Range(e.columns)
            THEN ReclassifyDraft(c, e.draftState.columns[c], fc[c])
            ELSE e.draftState.columns[c]])

\* buildFiltersUI after ensureStateSchemas()
BuildControls(e) ==
    ReclassifyAll(e, [c \in Range(e.columns) |->
                        getFacetCountsForColumn(e.appliedState, e.columns, e.rawRows, c)])

\* mutant: the facet counts are taken before the schemas are repaired
buildFiltersUI_StaleCounts(m) ==
    IF m.rawRows = <<>> THEN m
    ELSE ReclassifyAll(ensureStateSchemas(m),
            [c \in Range(m.columns) |->
                getFacetCountsForColumn(m.appliedState, m.columns, m.rawRows, c)])

\* function buildFiltersUI(), on a program state m
buildFiltersUI(m) ==
    IF m.rawRows = <<>> THEN m ELSE BuildControls(ensureStateSchemas(m))

\* mutant: the rows are matched against the draft state
applyAppliedFiltersAndRender_Draft(m) ==
    IF m.rawRows = <<>> THEN m
    ELSE updateApplyButtonState(buildFiltersUI(
            [m EXCEPT !.filteredRows =
                sortRows(m.sortState, FilterRows(m.draftState, m.columns, m.rawRows))]))

\* function applyAppliedFiltersAndRender(), on a program state m
applyAppliedFiltersAndRender(m) ==
    IF m.rawRows = <<>> THEN m
    ELSE updateApplyButtonState(buildFiltersUI(
            [m EXCEPT !.filteredRows =
                sortRows(m.sortState, FilterRows(m.appliedState, m.columns, m.rawRows))]))

\* mutant: the preset stores the draft state
currentPresetPayload_Draft(m) ==
    [global |-> m.draftState.global, columns |-> m.draftState.columns, sort |-> m.sortState]

\* function currentPresetPayload(), on a program state m
currentPresetPayload(m) ==
    [global |-> m.appliedState.global, columns |-> m.appliedState.columns, sort |-> m.sortState]

\* mutant: the payload's sort descriptor is not restored
applyPresetPayload_KeepSort(m, payload) ==
    LET a  == [global |-> payload.global, columns |-> payload.columns]
        m1 == [m EXCEPT !.appliedState = a,
                        !.draftState = CollapseAll(a),
                        !.ui.live = FALSE]
    IN  updateApplyButtonState(applyAppliedFiltersAndRender(buildFiltersUI(m1)))

\* function applyPresetPayload(payload), on a program state m
applyPresetPayload(m, payload) ==
    LET a  == [global |-> payload.global, columns |-> payload.columns]
        m1 == [m EXCEPT !.appliedState = a,
                        !.sortState = payload.sort,
                        !.draftState = CollapseAll(a),
                        !.ui.live = FALSE]
    IN  updateApplyButtonState(applyAppliedFiltersAndRender(buildFiltersUI(m1)))

----------------------------------------------------------------------------
(* Table body and export *)

\* renderTableBody(rows): rows.slice(0, RENDER_LIMIT) of the matched rows
DisplayedRows(m) ==
    SubSeq(m.filteredRows, 1,
           IF Len(m.filteredRows) < RENDER_LIMIT THEN Len(m.filteredRows) ELSE RENDER_LIMIT)

\* s.replaceAll('"', '""')
RECURSIVE DoubleQuotes(_)
DoubleQuotes(s) ==
    IF s = <<>> THEN <<>>
    ELSE (IF Head(s) = "\"" THEN <<"\"", "\"">> ELSE <<Head(s)>>) \o DoubleQuotes(Tail(s))

\* function escapeCsvValue(v)
escapeCsvValue(v) ==
    LET s == normalizeValue(v)
    IN  IF \E i \in DOMAIN s : s[i] \in {"\"", ",", "\n"}
        THEN <<"\"">> \o DoubleQuotes(s) \o <<"\"">>
        ELSE s

\* mutant: the export writes the rows of the table body
exportFilteredCsv_Displayed(m) ==
    IF m.filteredRows = <<>> THEN <<>>
    ELSE <<JoinComma([k \in DOMAIN m.columns |-> escapeCsvValue(m.columns[k])])>>
         \o [i \in DOMAIN DisplayedRows(m) |->
                JoinComma([k \in DOMAIN m.columns |->
                    escapeCsvValue(Cell(DisplayedRows(m)[i], m.columns[k]))])]

\* function exportFilteredCsv(), on a program state m: the lines of the text
\* downloaded (the text is these lines joined by "\n"), none when nothing is
\* downloaded
exportFilteredCsv(m) ==
    IF m.filteredRows = <<>> THEN <<>>
    ELSE <<JoinComma([k \in DOMAIN m.columns |-> escapeCsvValue(m.columns[k])])>>
         \o [i \in DOMAIN m.filteredRows |->
                JoinComma([k \in DOMAIN m.columns |->
                    escapeCsvValue(Cell(m.filteredRows[i], m.columns[k]))])]

----------------------------------------------------------------------------
(* Inputs: the CSV files the user may pick and the presets already stored *)

ColModel    == <<"M","o","d","e","l">>
ColModelPad == <<"M","O","D","E","L"," ">>
ColSite     == <<"S","i","t","e">>
ColNotes    == <<"N","o","t","e","s">>

\* what the user types into the global search box or a text filter
QueryText == <<" ","N","0"," ">>
TextInputs == { <<>>, QueryText }

\* what the user types into a multi-select's "Search options" box
OptionSearchInputs == { <<"X">> }

TwoDigits(i) == <<DigitChars[(i \div 10) + 1], DigitChars[(i % 10) + 1]>>

\* three rows, Model = A, A, B (forced multi) and a low-cardinality Site column
SmallData ==
    [columns |-> <<ColModel, ColSite>>,
     rows    |-> << [c \in {ColModel, ColSite} |-> IF c = ColModel THEN <<"A">> ELSE <<" ","n","0">>],
                    [c \in {ColModel, ColSite} |-> IF c = ColModel THEN <<"A">> ELSE <<"N","0","x">>],
                    [c \in {ColModel, ColSite} |-> IF c = ColModel THEN <<"B">> ELSE <<>>] >>]

\* NumBigRows rows, a forced column named "MODEL " (A in the first
\* LowCardinalityMax rows, B in the rest) and a Notes column with one distinct
\* value per row
BigData ==
    [columns |-> <<ColModelPad, ColNotes>>,
     rows    |-> [i \in 1..NumBigRows |->
                    [c \in {ColModelPad, ColNotes} |->
                        IF c = ColModelPad
                        THEN (IF i <= LowCardinalityMax THEN <<"A">> ELSE <<"B">>)
                        ELSE <<"n">> \o TwoDigits(i - 1)]]]

\* a header line and no data row
HeaderOnlyData == [columns |-> <<ColModel, ColSite>>, rows |-> <<>>]

\* four rows whose Notes are the values 10, 2, item9, item10, tagged a..d in Site
NaturalData ==
    [columns |-> <<ColNotes, ColSite>>,
     rows    |-> [i \in 1..4 |->
                    [c \in {ColNotes, ColSite} |->
                        IF c = ColSite THEN <<LowerChars[i]>>
                        ELSE << <<"1","0">>, <<"2">>, <<"i","t","e","m","9">>,
                                <<"i","t","e","m","1","0">> >>[i]]]]

\* four rows whose Notes are the values 1e3, 200, 5x, 1e3, tagged a..d in Site
CyclicData ==
    [columns |-> <<ColNotes, ColSite>>,
     rows    |-> [i \in 1..4 |->
                    [c \in {ColNotes, ColSite} |->
                        IF c = ColSite THEN <<LowerChars[i]>>
                        ELSE << <<"1","e","3">>, <<"2","0","0">>, <<"5","x">>,
                                <<"1","e","3">> >>[i]]]]

\* the files picked in the main specification, and in the large-dataset one
SmallFiles == {SmallData, HeaderOnlyData}
BigFiles == {BigData}

Descriptor(type, value, collapsed) == [type |-> type, value |-> value, collapsed |-> collapsed]

\* a well-formed preset saved over SmallData
PresetGood ==
    [id |-> 1, name |-> <<"g">>, createdAt |-> 3,
     payload |-> [global  |-> <<>>,
                  columns |-> SetKey(SetKey(EmptyMap,
                                ColModel, Descriptor("multi", Arr(<< <<"B">> >>), TRUE)),
                                ColSite, Descriptor("multi", Arr(<<>>), FALSE)),
                  sort    |-> [col |-> ColSite, dir |-> "desc"]]]

\* a preset of an older format: Model stored as a text filter, no Site entry
PresetLegacy ==
    [id |-> 2, name |-> <<"l">>, createdAt |-> 2,
     payload |-> [global  |-> QueryText,
                  columns |-> SetKey(EmptyMap,
                                ColModel, Descriptor("text", Str(<<"a">>), TRUE)),
                  sort    |-> DefaultSort]]

\* a preset whose descriptors' values do not fit their types
PresetDrift ==
    [id |-> 3, name |-> <<"d">>, createdAt |-> 1,
     payload |-> [global  |-> <<>>,
                  columns |-> SetKey(SetKey(EmptyMap,
                                ColModel, Descriptor("multi", Str(<<"B">>), TRUE)),
                                ColSite, Descriptor("text", Arr(<< <<"N","0","x">> >>), TRUE)),
                  sort    |-> [col |-> ColModel, dir |-> "asc"]]]

\* readPresets() at start-up: what earlier sessions left in localStorage, the
\* preset saved last (the greatest createdAt) first
StoredPresets == <<PresetGood, PresetLegacy, PresetDrift>>

\* the <option> elements refreshPresetSelect() appends for a list of presets
OptionsOf(list) == [k \in DOMAIN list |-> [value |-> list[k].id, text |-> list[k].name]]

----------------------------------------------------------------------------
(* Handlers, as functions of the program state m *)

Cur == [rawRows |-> rawRows, filteredRows |-> filteredRows, columns |-> columns,
        appliedState |-> appliedState, draftState |-> draftState,
        sortState |-> sortState, btnApplyDisabled |-> btnApplyDisabled, ui |-> ui]

Commit(m) ==
    /\ rawRows' = m.rawRows
    /\ filteredRows' = m.filteredRows
    /\ columns' = m.columns
    /\ appliedState' = m.appliedState
    /\ draftState' = m.draftState
    /\ sortState' = m.sortState
    /\ btnApplyDisabled' = m.btnApplyDisabled
    /\ ui' = m.ui

\* does the draft state hold a descriptor for the column a control was built for?
\* (if not, draftState.columns[col].value = ... throws and the handler stops)
HasDraft(m, i) == m.ui.filters[i].col \in DOMAIN m.draftState.columns

\* mutant: the edit is written to the applied state as well (single-phase)
textInputHandler_Applied(m, i, txt) ==
    LET col == m.ui.filters[i].col IN
    IF ~HasDraft(m, i) THEN m
    ELSE updateApplyButtonState([m EXCEPT !.draftState.columns[col].value = Str(txt),
                                          !.appliedState.columns[col].value = Str(txt)])

\* inp "input" listener of a text filter
textInputHandler(m, i, txt) ==
    LET col == m.ui.filters[i].col IN
    IF ~HasDraft(m, i) THEN m
    ELSE updateApplyButtonState([m EXCEPT !.draftState.columns[col].value = Str(txt)])

\* clearBtn "click" listener of a text filter
textClearHandler(m, i) ==
    LET col == m.ui.filters[i].col IN
    IF ~HasDraft(m, i) THEN m
    ELSE buildFiltersUI(updateApplyButtonState(
            [m EXCEPT !.draftState.columns[col].value = Str(<<>>)]))

\* the options shown under a search text
VisibleOptions(options, search) ==
    LET ft == toLower(search)
        Shown(v) == ft = <<>> \/ Includes(toLower(v), ft)
    IN  SelectSeq(options, Shown)

\* btnAll "click" listener: Select All (visible)
selectAllHandler(m, i, search) ==
    LET col == m.ui.filters[i].col IN
    IF ~HasDraft(m, i) THEN m
    ELSE buildFiltersUI(updateApplyButtonState(
            [m EXCEPT !.draftState.columns[col].value =
                Arr(VisibleOptions(m.ui.filters[i].options, search))]))

\* btnNone "click" listener: Clear
clearMultiHandler(m, i) ==
    LET col == m.ui.filters[i].col IN
    IF ~HasDraft(m, i) THEN m
    ELSE buildFiltersUI(updateApplyButtonState(
            [m EXCEPT !.draftState.columns[col].value = Arr(<<>>)]))

\* mutant: the selection is written to the applied state too, as in the
\* single-phase variant
checkboxChangeHandler_Immediate(m, i, v) ==
    LET col  == m.ui.filters[i].col
        old  == m.ui.filters[i].selected
        sel  == IF ArrIncludes(old, v) THEN SelectSeq(old, LAMBDA x : x # v)
                ELSE Append(old, v)
    IN  IF ~HasDraft(m, i) THEN m
        ELSE applyAppliedFiltersAndRender(
                [m EXCEPT !.draftState.columns[col].value = Arr(sel),
                          !.appliedState.columns[col].value = Arr(sel)])

\* cb "change" listener: the user ticks or unticks option v
checkboxChangeHandler(m, i, v) ==
    LET col  == m.ui.filters[i].col
        old  == m.ui.filters[i].selected
        sel  == IF ArrIncludes(old, v) THEN SelectSeq(old, LAMBDA x : x # v)
                ELSE Append(old, v)
        m1   == [m EXCEPT !.ui.filters[i].selected = sel]
    IN  IF ~HasDraft(m, i) THEN m1
        ELSE LET m2 == buildFiltersUI(updateApplyButtonState(
                          [m1 EXCEPT !.draftState.columns[col].value = Arr(sel)]))
             IN  [m2 EXCEPT !.draftState.columns[col].collapsed = FALSE]

\* header "click" listener: f is the draft descriptor the control was built from
headerClickHandler(m, i) ==
    LET col == m.ui.filters[i].col IN
    IF m.ui.live /\ HasDraft(m, i)
    THEN [m EXCEPT !.draftState.columns[col].collapsed = ~@]
    ELSE m

\* globalSearch "input" listener
globalInputHandler(m, txt) ==
    updateApplyButtonState([m EXCEPT !.draftState.global = txt])

\* mutant: only the global search string is committed
applyClickHandler_GlobalOnly(m) ==
    LET m1 == [m EXCEPT !.appliedState.global = m.draftState.global,
                        !.appliedState.columns = CollapseAll(m.appliedState).columns,
                        !.draftState = CollapseAll(m.draftState)]
    IN  updateApplyButtonState(buildFiltersUI(applyAppliedFiltersAndRender(m1)))

\* mutant: the commit leaves the panels as they are
applyClickHandler_KeepPanels(m) ==
    LET m1 == [m EXCEPT !.appliedState = m.draftState]
    IN  updateApplyButtonState(buildFiltersUI(applyAppliedFiltersAndRender(m1)))

\* mutant: the commit copies the draft values and keeps the applied types
applyClickHandler_ValuesOnly(m) ==
    LET d  == CollapseAll(m.draftState)
        a  == [global  |-> d.global,
               columns |-> [c \in DOMAIN d.columns |->
                              IF c \in DOMAIN m.appliedState.columns
                              THEN [d.columns[c] EXCEPT !.type = m.appliedState.columns[c].type]
                              ELSE d.columns[c]]]
        m1 == [m EXCEPT !.appliedState = a, !.draftState = d]
    IN  updateApplyButtonState(buildFiltersUI(applyAppliedFiltersAndRender(m1)))

\* btnApply "click" listener
applyClickHandler(m) ==
    LET m1 == [m EXCEPT !.appliedState = CollapseAll(m.draftState),
                        !.draftState = CollapseAll(m.draftState)]
    IN  updateApplyButtonState(buildFiltersUI(applyAppliedFiltersAndRender(m1)))

\* the reset of one descriptor in the btnClear listener
ClearDescriptor(f) ==
    [f EXCEPT !.value = IF f.type = "text" THEN Str(<<>>)
                        ELSE IF f.type = "multi" THEN Arr(<<>>) ELSE @,
              !.collapsed = TRUE]

ClearState(st, cols) ==
    [global  |-> <<>>,
     columns |-> [c \in DOMAIN st.columns |->
                    IF c \in Range(cols) THEN ClearDescriptor(st.columns[c]) ELSE st.columns[c]]]

\* btnClear "click" listener
clearClickHandler(m) ==
    LET m1 == [m EXCEPT !.appliedState = ClearState(m.appliedState, m.columns),
                        !.draftState = ClearState(m.draftState, m.columns),
                        !.sortState = DefaultSort]
    IN  updateApplyButtonState(applyAppliedFiltersAndRender(buildFiltersUI(m1)))

\* mutant: a newly chosen sort column keeps the previous direction
sortClickHandler_KeepDir(m, col) ==
    LET s == IF m.sortState.col = col
             THEN [m.sortState EXCEPT !.dir = IF @ = "asc" THEN "desc" ELSE "asc"]
             ELSE [col |-> col, dir |-> m.sortState.dir]
    IN  applyAppliedFiltersAndRender([m EXCEPT !.sortState = s])

\* mutant: the header click sorts the raw rows themselves
sortClickHandler_InPlace(m, col) ==
    LET s == IF m.sortState.col = col
             THEN [m.sortState EXCEPT !.dir = IF @ = "asc" THEN "desc" ELSE "asc"]
             ELSE [col |-> col, dir |-> "asc"]
    IN  applyAppliedFiltersAndRender([m EXCEPT !.sortState = s,
                                               !.rawRows = sortRows(s, m.rawRows)])

\* th "click" listener of buildTableHeader
sortClickHandler(m, col) ==
    LET s == IF m.sortState.col = col
             THEN [m.sortState EXCEPT !.dir = IF @ = "asc" THEN "desc" ELSE "asc"]
             ELSE [col |-> col, dir |-> "asc"]
    IN  applyAppliedFiltersAndRender([m EXCEPT !.sortState = s])

\* mutant: the load keeps the filters of the previous dataset
parseCompleteHandler_KeepFilters(m, data) ==
    LET m1 == [m EXCEPT !.rawRows = data.rows,
                        !.columns = data.columns,
                        !.sortState = DefaultSort,
                        !.btnApplyDisabled = FALSE,
                        !.ui.live = FALSE]
        m2 == ensureStateSchemas(m1)
        m3 == [m2 EXCEPT !.appliedState = CollapseAll(@), !.draftState = CollapseAll(@)]
    IN  updateApplyButtonState(applyAppliedFiltersAndRender(buildFiltersUI(m3)))

\* the "complete" callback of Papa.parse in the csvFile listener
parseCompleteHandler(m, data) ==
    LET m1 == [m EXCEPT !.rawRows = data.rows,
                        !.columns = data.columns,
                        !.appliedState = EmptyState,
                        !.draftState = EmptyState,
                        !.sortState = DefaultSort,
                        !.btnApplyDisabled = FALSE,
                        !.ui.live = FALSE]
        m2 == ensureStateSchemas(m1)
        m3 == [m2 EXCEPT !.appliedState = CollapseAll(@), !.draftState = CollapseAll(@)]
    IN  updateApplyButtonState(applyAppliedFiltersAndRender(buildFiltersUI(m3)))


----------------------------------------------------------------------------
(* The state machine *)

\* a report section after its constructor, no preset stored under its key
NoSection ==
    [m |-> [rawRows |-> <<>>, filteredRows |-> <<>>, columns |-> <<>>,
            appliedState |-> EmptyState, draftState |-> EmptyState,
            sortState |-> DefaultSort, btnApplyDisabled |-> TRUE, ui |-> NoUI],
     controlsEnabled |-> FALSE,
     presets |-> <<>>]

Init ==
    /\ rawRows = <<>>
    /\ filteredRows = <<>>
    /\ columns = <<>>
    /\ appliedState = EmptyState
    /\ draftState = EmptyState
    /\ sortState = DefaultSort
    /\ btnApplyDisabled = TRUE
    /\ controlsEnabled = FALSE
    /\ ui = NoUI
    /\ presets = StoredPresets
    /\ pending = 0
    /\ lastOp = "init"
    /\ filterState = EmptyState
    /\ savedViews = <<>>
    /\ raw = "array"
    /\ presetSelect = OptionsOf(StoredPresets)
    /\ other = NoSection

\* function readPresets(): the stored array; [] when nothing is stored or
\* JSON.parse throws; when the stored text is the JSON of an object, that object,
\* which has no elements
readPresets == IF raw = "array" THEN presets ELSE <<>>

\* is the value readPresets() returns an array? (on an object, for...of, unshift,
\* find and filter throw a TypeError)
ReadsArray == raw # "object"

\* csvFile "change": Papa.parse starts reading the file
SelectFile ==
    /\ pending < MaxInFlight
    /\ pending' = pending + 1
    /\ lastOp' = "select"
    /\ filterState' = filterState
    /\ UNCHANGED <<rawRows, filteredRows, columns, appliedState, draftState, sortState,
                   btnApplyDisabled, controlsEnabled, ui, presets, savedViews, raw, presetSelect, other>>

\* Papa.parse calls complete(results), the file being one of files
ParseComplete(files) ==
    /\ pending > 0
    /\ ReadsArray
    /\ \E data \in files : \E m \in {parseCompleteHandler(Cur, data)} : Commit(m)
    /\ pending' = pending - 1
    /\ controlsEnabled' = TRUE
    /\ presetSelect' = OptionsOf(readPresets)
    /\ lastOp' = "load"
    /\ filterState' = filterState
    /\ savedViews' = <<>>
    /\ UNCHANGED <<presets, raw, other>>

\* mutant: the error callback enables the controls as a load does
ParseError_Enables ==
    /\ pending > 0
    /\ pending' = pending - 1
    /\ controlsEnabled' = TRUE
    /\ btnApplyDisabled' = FALSE
    /\ lastOp' = "loadError"
    /\ filterState' = filterState
    /\ UNCHANGED <<rawRows, filteredRows, columns, appliedState, draftState, sortState,
                   ui, presets, savedViews, raw, presetSelect, other>>

\* Papa.parse calls error(): only the status line changes
ParseError ==
    /\ pending > 0
    /\ pending' = pending - 1
    /\ lastOp' = "loadError"
    /\ filterState' = filterState
    /\ UNCHANGED <<rawRows, filteredRows, columns, appliedState, draftState, sortState,
                   btnApplyDisabled, controlsEnabled, ui, presets, savedViews, raw, presetSelect, other>>

\* csvFile "change" and the parse's complete(results) with no other event between
\* the two
LoadFile(files) ==
    /\ pending = 0
    /\ ReadsArray
    /\ \E data \in files : \E m \in {parseCompleteHandler(Cur, data)} : Commit(m)
    /\ controlsEnabled' = TRUE
    /\ presetSelect' = OptionsOf(readPresets)
    /\ lastOp' = "load"
    /\ filterState' = filterState
    /\ savedViews' = <<>>
    /\ UNCHANGED <<presets, raw, pending, other>>

\* the rendered filter controls: all of them, and those built for the dataset now
\* loaded (after a header-only file is loaded, the controls of the previous file
\* stay in filtersContainer)
AllControls == DOMAIN ui.filters
LiveControls == IF ui.live THEN DOMAIN ui.filters ELSE {}

EditText(ctrls) ==
    /\ \E i \in ctrls, txt \in TextInputs :
          /\ ui.filters[i].kind = "text"
          /\ \E m \in {textInputHandler(Cur, i, txt)} : Commit(m)
    /\ lastOp' = "edit"
    /\ filterState' = filterState
    /\ UNCHANGED <<controlsEnabled, presets, pending, savedViews, raw, presetSelect, other>>

ClearText(ctrls) ==
    /\ \E i \in ctrls :
          /\ ui.filters[i].kind = "text"
          /\ \E m \in {textClearHandler(Cur, i)} : Commit(m)
    /\ lastOp' = "edit"
    /\ filterState' = filterState
    /\ UNCHANGED <<controlsEnabled, presets, pending, savedViews, raw, presetSelect, other>>

SelectAllVisible(ctrls) ==
    /\ \E i \in ctrls, search \in OptionSearchInputs :
          /\ ui.filters[i].kind = "multi"
          /\ \E m \in {selectAllHandler(Cur, i, search)} : Commit(m)
    /\ lastOp' = "edit"
    /\ filterState' = filterState
    /\ UNCHANGED <<controlsEnabled, presets, pending, savedViews, raw, presetSelect, other>>

ClearMulti(ctrls) ==
    /\ \E i \in ctrls :
          /\ ui.filters[i].kind = "multi"
          /\ \E m \in {clearMultiHandler(Cur, i)} : Commit(m)
    /\ lastOp' = "edit"
    /\ filterState' = filterState
    /\ UNCHANGED <<controlsEnabled, presets, pending, savedViews, raw, presetSelect, other>>

ToggleOption(ctrls) ==
    /\ \E i \in ctrls :
          /\ ui.filters[i].kind = "multi"
          /\ \E k \in 1..MaxClickIdx :
                /\ k <= Len(ui.filters[i].options)
                /\ \E m \in {checkboxChangeHandler(Cur, i, ui.filters[i].options[k])} : Commit(m)
    /\ lastOp' = "edit"
    /\ filterState' = filterState
    /\ UNCHANGED <<controlsEnabled, presets, pending, savedViews, raw, presetSelect, other>>

TogglePanel(ctrls) ==
    /\ \E i \in ctrls :
          /\ i <= MaxToggleCols
          /\ \E m \in {headerClickHandler(Cur, i)} : Commit(m)
    /\ lastOp' = "edit"
    /\ filterState' = filterState
    /\ UNCHANGED <<controlsEnabled, presets, pending, savedViews, raw, presetSelect, other>>

EditGlobal ==
    /\ controlsEnabled
    /\ \E txt \in TextInputs : \E m \in {globalInputHandler(Cur, txt)} : Commit(m)
    /\ lastOp' = "edit"
    /\ filterState' = filterState
    /\ UNCHANGED <<controlsEnabled, presets, pending, savedViews, raw, presetSelect, other>>

\* any edit of the draft through the controls ctrls or the global search box
DraftEdit(ctrls) ==
    \/ EditText(ctrls)
    \/ ClearText(ctrls)
    \/ SelectAllVisible(ctrls)
    \/ ClearMulti(ctrls)
    \/ ToggleOption(ctrls)
    \/ TogglePanel(ctrls)
    \/ EditGlobal

Apply ==
    /\ ~btnApplyDisabled
    /\ \E m \in {applyClickHandler(Cur)} : Commit(m)
    /\ lastOp' = "apply"
    /\ filterState' = filterState
    /\ UNCHANGED <<controlsEnabled, presets, pending, savedViews, raw, presetSelect, other>>

ClearAll ==
    /\ controlsEnabled
    /\ \E m \in {clearClickHandler(Cur)} : Commit(m)
    /\ lastOp' = "clear"
    /\ filterState' = filterState
    /\ UNCHANGED <<controlsEnabled, presets, pending, savedViews, raw, presetSelect, other>>

ChangeSort ==
    /\ \E k \in 1..MaxSortCols :
          /\ k <= Len(columns)
          /\ \E m \in {sortClickHandler(Cur, columns[k])} : Commit(m)
    /\ lastOp' = "sort"
    /\ filterState' = filterState
    /\ UNCHANGED <<controlsEnabled, presets, pending, savedViews, raw, presetSelect, other>>

\* the values of the options the user can choose in presetSelect
OptionValues == {presetSelect[k].value : k \in DOMAIN presetSelect}

\* btnLoadPreset "click" with a preset of the store chosen in presetSelect
LoadPreset ==
    /\ controlsEnabled
    /\ ReadsArray
    /\ \E k \in DOMAIN readPresets :
          /\ readPresets[k].id \in OptionValues
          /\ \E m \in {applyPresetPayload(Cur, readPresets[k].payload)} : Commit(m)
    /\ lastOp' = "preset"
    /\ filterState' = filterState
    /\ UNCHANGED <<controlsEnabled, presets, pending, savedViews, raw, presetSelect, other>>

\* what the user types into the preset name box
PresetNames == { <<" ">>, <<"p">> }

\* the id of the next saved preset (crypto.randomUUID(): unlike every stored id)
FreshId ==
    1 + CHOOSE x \in {Len(StoredPresets)} \cup {readPresets[k].id : k \in DOMAIN readPresets} :
            x >= Len(StoredPresets) /\ \A k \in DOMAIN readPresets : readPresets[k].id <= x

\* new Date().toISOString() at a save: later than the createdAt of every preset
\* in the store, and of every preset of an earlier session
FreshStamp ==
    1 + CHOOSE x \in {Len(StoredPresets)}
                        \cup {readPresets[k].createdAt : k \in DOMAIN readPresets} :
            x >= Len(StoredPresets) /\ \A k \in DOMAIN readPresets : readPresets[k].createdAt <= x

\* the facet counts of every column in a program state m
FacetCountsOf(m) ==
    [c \in Range(m.columns) |->
        getFacetCountsForColumn(m.appliedState, m.columns, m.rawRows, c).get]

\* mutant: the new preset is pushed to the end of the list
SavePreset_Push ==
    /\ controlsEnabled
    /\ FreshStamp <= Len(StoredPresets) + MaxSaved
    /\ \E name \in PresetNames :
          IF normalizeValue(name) = <<>>
          THEN UNCHANGED <<presets, savedViews, raw, presetSelect>>
          ELSE /\ ReadsArray
               /\ presets' = readPresets \o <<[id |-> FreshId, name |-> normalizeValue(name),
                                payload |-> currentPresetPayload(Cur),
                                createdAt |-> FreshStamp]>>
               /\ raw' = "array"
               /\ presetSelect' = OptionsOf(presets')
               /\ savedViews' = <<[id |-> FreshId, rows |-> filteredRows,
                                   counts |-> FacetCountsOf(Cur)]>> \o savedViews
    /\ lastOp' = "save"
    /\ filterState' = filterState
    /\ UNCHANGED <<rawRows, filteredRows, columns, appliedState, draftState, sortState,
                   btnApplyDisabled, controlsEnabled, ui, pending, other>>

\* mutant: the name is not checked before the preset is written
SavePreset_AnyName ==
    /\ controlsEnabled
    /\ FreshStamp <= Len(StoredPresets) + MaxSaved
    /\ \E name \in PresetNames :
               /\ ReadsArray
               /\ presets' = <<[id |-> FreshId, name |-> normalizeValue(name),
                                payload |-> currentPresetPayload(Cur),
                                createdAt |-> FreshStamp]>> \o readPresets
               /\ raw' = "array"
               /\ presetSelect' = OptionsOf(presets')
               /\ savedViews' = <<[id |-> FreshId, rows |-> filteredRows,
                                   counts |-> FacetCountsOf(Cur)]>> \o savedViews
    /\ lastOp' = "save"
    /\ filterState' = filterState
    /\ UNCHANGED <<rawRows, filteredRows, columns, appliedState, draftState, sortState,
                   btnApplyDisabled, controlsEnabled, ui, pending, other>>

\* btnSavePreset "click": the payload goes through JSON.stringify and JSON.parse,
\* which give back the same strings, arrays, booleans and null
SavePreset ==
    /\ controlsEnabled
    /\ FreshStamp <= Len(StoredPresets) + MaxSaved
    /\ \E name \in PresetNames :
          IF normalizeValue(name) = <<>>
          THEN UNCHANGED <<presets, savedViews, raw, presetSelect>>
          ELSE /\ ReadsArray
               /\ presets' = <<[id |-> FreshId, name |-> normalizeValue(name),
                                payload |-> currentPresetPayload(Cur),
                                createdAt |-> FreshStamp]>> \o readPresets
               /\ raw' = "array"
               /\ presetSelect' = OptionsOf(presets')
               /\ savedViews' = <<[id |-> FreshId, rows |-> filteredRows,
                                   counts |-> FacetCountsOf(Cur)]>> \o savedViews
    /\ lastOp' = "save"
    /\ filterState' = filterState
    /\ UNCHANGED <<rawRows, filteredRows, columns, appliedState, draftState, sortState,
                   btnApplyDisabled, controlsEnabled, ui, pending, other>>

Next ==
    \/ LoadFile(SmallFiles)
    \/ EditText(LiveControls)
    \/ ClearText(LiveControls)
    \/ SelectAllVisible(LiveControls)
    \/ ClearMulti(LiveControls)
    \/ ToggleOption(LiveControls)
    \/ TogglePanel(LiveControls)
    \/ EditGlobal
    \/ Apply
    \/ ClearAll
    \/ ChangeSort
    \/ LoadPreset

Spec == Init /\ [][Next]_vars

\* the same program on the large dataset (and the header-only one)
NextBig ==
    \/ LoadFile(BigFiles \cup {HeaderOnlyData})
    \/ EditText(LiveControls)
    \/ ClearText(LiveControls)
    \/ ToggleOption(LiveControls)
    \/ EditGlobal
    \/ Apply
    \/ ClearAll

SpecBig == Init /\ [][NextBig]_vars


\* cb "change" on any option of a rendered multi-select
ToggleAnyOption(ctrls) ==
    /\ \E i \in ctrls :
          /\ ui.filters[i].kind = "multi"
          /\ \E k \in DOMAIN ui.filters[i].options :
                \E m \in {checkboxChangeHandler(Cur, i, ui.filters[i].options[k])} : Commit(m)
    /\ lastOp' = "edit"
    /\ filterState' = filterState
    /\ UNCHANGED <<controlsEnabled, presets, pending, savedViews, raw, presetSelect, other>>

\* the program on the small dataset with every checkbox within reach
NextSelect ==
    \/ LoadFile({SmallData})
    \/ ToggleAnyOption(LiveControls)
    \/ TogglePanel(LiveControls)
    \/ Apply
    \/ ChangeSort

SpecSelect == Init /\ [][NextSelect]_vars

\* btnLoadPreset "click" with a preset saved in this session chosen
LoadSavedPreset ==
    /\ controlsEnabled
    /\ ReadsArray
    /\ \E k \in DOMAIN readPresets :
          /\ readPresets[k].id \in OptionValues
          /\ readPresets[k].id > Len(StoredPresets)
          /\ \E m \in {applyPresetPayload(Cur, readPresets[k].payload)} : Commit(m)
    /\ lastOp' = "preset"
    /\ filterState' = filterState
    /\ UNCHANGED <<controlsEnabled, presets, pending, savedViews, raw, presetSelect, other>>

\* the program with presets saved and loaded in the session
NextPreset ==
    \/ LoadFile({SmallData})
    \/ ToggleOption(LiveControls)
    \/ EditGlobal
    \/ Apply
    \/ ClearAll
    \/ ChangeSort
    \/ SavePreset
    \/ LoadSavedPreset

SpecPreset == Init /\ [][NextPreset]_vars

\* the program with file parses that take time and may fail
NextIngest ==
    \/ SelectFile
    \/ ParseComplete({SmallData})
    \/ ParseError
    \/ ToggleOption(LiveControls)
    \/ EditGlobal
    \/ Apply
    \/ ClearAll
    \/ LoadPreset

SpecIngest == Init /\ [][NextIngest]_vars

\* what the user answers to prompt("New preset name:"): "" stands for Cancel
\* (null) too, both being falsy
PromptInputs == { <<>>, <<" ", "r">> }

\* the choice in presetSelect: an option's value, or "" (the placeholder)
NoId == 0
Choices == OptionValues \cup {NoId}

\* mutant: every preset of the list gets the new name
Renamed_Every(list, id, newName) ==
    [k \in DOMAIN list |-> [list[k] EXCEPT !.name = normalizeValue(newName)]]

\* presets after p.name = newName.trim() on the first preset with the id
Renamed(list, id, newName) ==
    [k \in DOMAIN list |->
        IF list[k].id = id /\ \A j \in 1..(k - 1) : list[j].id # id
        THEN [list[k] EXCEPT !.name = normalizeValue(newName)]
        ELSE list[k]]

\* btnRenamePreset "click", the answer to the prompt being one of inputs
RenamePrompt(inputs) ==
    /\ controlsEnabled
    /\ \E id \in Choices, newName \in inputs :
          IF id = NoId \/ newName = <<>>
          THEN UNCHANGED <<presets, raw, presetSelect>>
          ELSE /\ ReadsArray
               /\ IF \A k \in DOMAIN readPresets : readPresets[k].id # id
                  THEN UNCHANGED <<presets, raw, presetSelect>>
                  ELSE /\ presets' = Renamed(readPresets, id, newName)
                       /\ raw' = "array"
                       /\ presetSelect' = OptionsOf(presets')
    /\ lastOp' = "rename"
    /\ filterState' = filterState
    /\ UNCHANGED <<rawRows, filteredRows, columns, appliedState, draftState, sortState,
                   btnApplyDisabled, controlsEnabled, ui, pending, savedViews, other>>

\* btnRenamePreset "click"
RenamePreset == RenamePrompt(PromptInputs)

\* btnDeletePreset "click"; ok is the answer to confirm()
DeletePreset ==
    /\ controlsEnabled
    /\ \E id \in Choices, ok \in BOOLEAN :
          IF id = NoId
          THEN UNCHANGED <<presets, raw, presetSelect, savedViews>>
          ELSE /\ ReadsArray
               /\ IF ~ok
                  THEN UNCHANGED <<presets, raw, presetSelect, savedViews>>
                  ELSE /\ presets' = SelectSeq(readPresets, LAMBDA x : x.id # id)
                       /\ raw' = "array"
                       /\ presetSelect' = OptionsOf(presets')
                       /\ savedViews' = SelectSeq(savedViews, LAMBDA v : v.id # id)
    /\ lastOp' = "delete"
    /\ filterState' = filterState
    /\ UNCHANGED <<rawRows, filteredRows, columns, appliedState, draftState, sortState,
                   btnApplyDisabled, controlsEnabled, ui, pending, other>>

\* mutant: a preset that is not found is loaded as an empty payload
LoadMissingPreset_Defaults ==
    /\ controlsEnabled
    /\ \E id \in Choices :
          \/ /\ id = NoId
             /\ lastOp' = "none"
             /\ filterState' = filterState
             /\ UNCHANGED <<rawRows, filteredRows, columns, appliedState, draftState,
                            sortState, btnApplyDisabled, ui>>
          \/ /\ id # NoId
             /\ ReadsArray
             /\ \A k \in DOMAIN readPresets : readPresets[k].id # id
             /\ lastOp' = "missing"
             /\ filterState' = filterState
             /\ \E m \in {applyPresetPayload(Cur, [global |-> <<>>, columns |-> EmptyMap,
                                                   sort |-> DefaultSort])} : Commit(m)
    /\ UNCHANGED <<controlsEnabled, presets, pending, savedViews, raw, presetSelect, other>>

\* btnLoadPreset "click" with the placeholder chosen, or an option whose preset
\* is not in the store: "Preset not found."
LoadMissingPreset ==
    /\ controlsEnabled
    /\ \E id \in Choices :
          \/ /\ id = NoId
             /\ lastOp' = "none"
             /\ filterState' = filterState
          \/ /\ id # NoId
             /\ ReadsArray
             /\ \A k \in DOMAIN readPresets : readPresets[k].id # id
             /\ lastOp' = "missing"
             /\ filterState' = filterState
    /\ UNCHANGED <<rawRows, filteredRows, columns, appliedState, draftState, sortState,
                   btnApplyDisabled, controlsEnabled, ui, presets, pending, savedViews,
                   raw, presetSelect, other>>

\* a preset button's "click" when readPresets() returns an object: save with a
\* name (presets.unshift), and load, rename and delete with an option chosen
\* (presets.find), throw a TypeError before anything is written
PresetHandlerThrows ==
    /\ controlsEnabled
    /\ ~ReadsArray
    /\ lastOp' = "throw"
    /\ filterState' = filterState
    /\ UNCHANGED <<rawRows, filteredRows, columns, appliedState, draftState, sortState,
                   btnApplyDisabled, controlsEnabled, ui, presets, pending, savedViews,
                   raw, presetSelect, other>>

\* complete(results) when readPresets() returns an object: refreshPresetSelect()
\* throws after it has emptied presetSelect, and the rest of the callback (the
\* schemas, the filter controls, the table body) does not run
LoadFileAborted(files) ==
    /\ pending = 0
    /\ ~ReadsArray
    /\ \E data \in files :
          Commit([Cur EXCEPT !.rawRows = data.rows,
                             !.columns = data.columns,
                             !.appliedState = EmptyState,
                             !.draftState = EmptyState,
                             !.sortState = DefaultSort,
                             !.btnApplyDisabled = FALSE,
                             !.ui.live = FALSE])
    /\ controlsEnabled' = TRUE
    /\ presetSelect' = <<>>
    /\ lastOp' = "throw"
    /\ filterState' = filterState
    /\ savedViews' = <<>>
    /\ UNCHANGED <<presets, raw, pending, other>>

\* localStorage[PRESETS_KEY] is overwritten from outside the page (another tab
\* of the same origin, a cleared or truncated store): the presets as another tab
\* leaves them after deleting the newest one, or a text that is not the JSON of
\* an array
StorageOverwritten ==
    /\ raw = "array"
    /\ presets # <<>>
    /\ \/ /\ presets' = Tail(presets)
          /\ savedViews' = SelectSeq(savedViews, LAMBDA v : v.id # Head(presets).id)
          /\ raw' = raw
       \/ /\ presets' = <<>>
          /\ savedViews' = <<>>
          /\ raw' \in {"garbled", "object"}
    /\ lastOp' = "storage"
    /\ filterState' = filterState
    /\ UNCHANGED <<rawRows, filteredRows, columns, appliedState, draftState, sortState,
                   btnApplyDisabled, controlsEnabled, ui, pending, presetSelect, other>>

\* the program with the preset store edited, from the page and from outside
NextStore ==
    \/ LoadFile({SmallData})
    \/ LoadFileAborted({SmallData})
    \/ SavePreset
    \/ RenamePreset
    \/ DeletePreset
    \/ LoadPreset
    \/ LoadMissingPreset
    \/ PresetHandlerThrows
    \/ StorageOverwritten

\* the page opened over a store of two presets
InitStore ==
    /\ rawRows = <<>>
    /\ filteredRows = <<>>
    /\ columns = <<>>
    /\ appliedState = EmptyState
    /\ draftState = EmptyState
    /\ sortState = DefaultSort
    /\ btnApplyDisabled = TRUE
    /\ controlsEnabled = FALSE
    /\ ui = NoUI
    /\ presets = <<PresetGood, PresetLegacy>>
    /\ pending = 0
    /\ lastOp = "init"
    /\ filterState = EmptyState
    /\ savedViews = <<>>
    /\ raw = "array"
    /\ presetSelect = OptionsOf(presets)
    /\ other = NoSection

SpecStore == InitStore /\ [][NextStore]_vars

\* mutant: one storage key for all the sections
PRESETS_KEY_Shared(reportId) == <<"inventoryDashboardPresets_v7">>

\* this.PRESETS_KEY of the section reportId
PRESETS_KEY(reportId) == <<"inventoryDashboardPresets_v7_", reportId>>

\* readPresets() of the other section ("hardware"), the variables above being
\* those of the section "stock": the same list if the two keys are the same
OtherReadPresets ==
    IF PRESETS_KEY("hardware") = PRESETS_KEY("stock") THEN readPresets ELSE other.presets

\* the other section's file input, search box, Apply, Clear All and column
\* headers: the handlers above, run on that section's fields
OtherSection ==
    /\ \E m \in
          {parseCompleteHandler(other.m, SmallData)}
          \cup (IF other.controlsEnabled
                THEN {globalInputHandler(other.m, txt) : txt \in TextInputs}
                     \cup {clearClickHandler(other.m)}
                     \cup {sortClickHandler(other.m, other.m.columns[k]) :
                              k \in 1..MaxSortCols}
                ELSE {})
          \cup (IF other.m.btnApplyDisabled THEN {} ELSE {applyClickHandler(other.m)}) :
          other' = [other EXCEPT !.m = m, !.controlsEnabled = TRUE]
    /\ lastOp' = "other"
    /\ filterState' = filterState
    /\ UNCHANGED <<rawRows, filteredRows, columns, appliedState, draftState, sortState,
                   btnApplyDisabled, controlsEnabled, ui, presets, pending, savedViews,
                   raw, presetSelect>>

\* the other section's btnDeletePreset "click" on the first preset of its list
OtherDeletePreset ==
    /\ other.controlsEnabled
    /\ OtherReadPresets # <<>>
    /\ IF PRESETS_KEY("hardware") = PRESETS_KEY("stock")
       THEN /\ presets' = Tail(OtherReadPresets)
            /\ raw' = "array"
            /\ savedViews' = SelectSeq(savedViews, LAMBDA v : v.id # Head(OtherReadPresets).id)
            /\ other' = other
       ELSE /\ other' = [other EXCEPT !.presets = Tail(OtherReadPresets)]
            /\ UNCHANGED <<presets, raw, savedViews>>
    /\ lastOp' = "other"
    /\ filterState' = filterState
    /\ UNCHANGED <<rawRows, filteredRows, columns, appliedState, draftState, sortState,
                   btnApplyDisabled, controlsEnabled, ui, pending, presetSelect>>

\* Boot: one ReportDashboard per section, each over the presets under its key
InitSections ==
    /\ rawRows = <<>>
    /\ filteredRows = <<>>
    /\ columns = <<>>
    /\ appliedState = EmptyState
    /\ draftState = EmptyState
    /\ sortState = DefaultSort
    /\ btnApplyDisabled = TRUE
    /\ controlsEnabled = FALSE
    /\ ui = NoUI
    /\ presets = <<PresetGood>>
    /\ pending = 0
    /\ lastOp = "init"
    /\ filterState = EmptyState
    /\ savedViews = <<>>
    /\ raw = "array"
    /\ presetSelect = OptionsOf(presets)
    /\ other = [NoSection EXCEPT !.presets = <<PresetLegacy>>]

\* two report sections used in turn
NextSections ==
    \/ LoadFile({SmallData})
    \/ ChangeSort
    \/ SavePreset
    \/ LoadPreset
    \/ RenamePreset
    \/ DeletePreset
    \/ OtherSection
    \/ OtherDeletePreset

SpecSections == InitSections /\ [][NextSections]_vars

\* the program over datasets of numbers and names, sorted by the first column
NextSort ==
    \/ LoadFile({NaturalData, CyclicData})
    \/ ToggleOption(LiveControls)
    \/ EditGlobal
    \/ Apply
    \/ ClearAll
    \/ ChangeSort

SpecSort == Init /\ [][NextSort]_vars

\* btnExport "click": exportFilteredCsv() builds the text of a file to download
\* and writes to none of the program's variables
Export ==
    /\ controlsEnabled
    /\ exportFilteredCsv(Cur) \in Seq(Seq(STRING))
    /\ lastOp' = "export"
    /\ filterState' = filterState
    /\ UNCHANGED <<rawRows, filteredRows, columns, appliedState, draftState, sortState,
                   btnApplyDisabled, controlsEnabled, ui, presets, pending, savedViews,
                   raw, presetSelect, other>>

\* a whole session on one section: filters, sort, export and the preset store
NextSession ==
    \/ LoadFile({SmallData})
    \/ EditGlobal
    \/ Apply
    \/ ClearAll
    \/ ChangeSort
    \/ Export
    \/ SavePreset
    \/ LoadPreset
    \/ RenamePreset
    \/ DeletePreset

SpecSession == InitSections /\ [][NextSession]_vars

\* ENABLED <<Apply>>_vars: the button is enabled, and the listener changes a
\* variable
ApplyEnabled == ~btnApplyDisabled /\ (lastOp # "apply" \/ applyClickHandler(Cur) # Cur)

\* the program of SpecSelect with a user who goes on clicking Apply while the
\* button is enabled: WF_vars(Apply), its ENABLED written out
SpecConverge ==
    Init /\ [][NextSelect]_vars /\ ([]<>(~ApplyEnabled) \/ []<><<Apply>>_vars)

\* the answers to the prompt, one of blanks only among them
AnyPrompts == PromptInputs \cup { <<" ">> }

\* the page opened over an empty store
InitNames ==
    /\ rawRows = <<>>
    /\ filteredRows = <<>>
    /\ columns = <<>>
    /\ appliedState = EmptyState
    /\ draftState = EmptyState
    /\ sortState = DefaultSort
    /\ btnApplyDisabled = TRUE
    /\ controlsEnabled = FALSE
    /\ ui = NoUI
    /\ presets = <<>>
    /\ pending = 0
    /\ lastOp = "init"
    /\ filterState = EmptyState
    /\ savedViews = <<>>
    /\ raw = "array"
    /\ presetSelect = <<>>
    /\ other = NoSection

\* presets saved, renamed and deleted, from an empty store
NextNames ==
    \/ LoadFile({SmallData})
    \/ EditGlobal
    \/ Apply
    \/ ChangeSort
    \/ SavePreset
    \/ RenamePrompt(AnyPrompts)
    \/ DeletePreset

SpecNames == InitNames /\ [][NextNames]_vars

----------------------------------------------------------------------------
(* The single-phase variant (src/unnamed/part_000): one filter state,      *)
(* filterState, which every filter edit changes and filters by at once     *)

\* the program state of the variant
CurSingle == [rawRows |-> rawRows, filteredRows |-> filteredRows, columns |-> columns,
              filterState |-> filterState, sortState |-> sortState, ui |-> ui]

CommitSingle(m) ==
    /\ rawRows' = m.rawRows
    /\ filteredRows' = m.filteredRows
    /\ columns' = m.columns
    /\ filterState' = m.filterState
    /\ sortState' = m.sortState
    /\ ui' = m.ui

\* function rowMatchesFilters(row, excludeCol = null)
rowMatchesFilters(st, cols, row, excludeCol) ==
    LET g == toLower(st.global) IN
    IF g # <<>> /\ ~GlobalFound(cols, row, g, 1) THEN FALSE
    ELSE ColumnsPass(st, cols, row, excludeCol, 1)

\* function getFacetCountsForColumn(col) of the variant
getFacetCountsSingle(st, cols, rows, col) ==
    CountMap(ValuesOf(SelectSeq(rows,
        LAMBDA r : rowMatchesFilters(st, cols, r, col) /\ normalizeValue(Cell(r, col)) # <<>>), col))

\* the loop of ensureFilterStateForColumns, from column i on: a missing descriptor
\* is created open, typed by the facet counts under the state built so far
RECURSIVE EnsureFilterLoop(_, _, _, _)
EnsureFilterLoop(st, cols, rows, i) ==
    IF i > Len(cols) THEN st
    ELSE LET col == cols[i]
             st1 == IF col \notin DOMAIN st.columns
                    THEN LET type == Classify(col, getFacetCountsSingle(st, cols, rows, col))
                         IN  [st EXCEPT !.columns = SetKey(@, col,
                                [type |-> type, value |-> EmptyValue(type), collapsed |-> FALSE])]
                    ELSE [st EXCEPT !.columns[col] = RepairDescriptor(col, @)]
         IN  EnsureFilterLoop(st1, cols, rows, i + 1)

\* function ensureFilterStateForColumns(), on a program state m
ensureFilterStateForColumns(m) ==
    [m EXCEPT !.filterState = EnsureFilterLoop(m.filterState, m.columns, m.rawRows, 1)]

\* the type adjustment of buildFiltersUI: a column that is not forced follows its
\* facet counts, and a descriptor that changes type is emptied and opened
ReclassifyFilter(col, f, facetCounts) ==
    IF isForcedMulti(col) THEN f
    ELSE LET shouldBeMulti == isLowCardinalityByCounts(facetCounts)
             f1 == IF shouldBeMulti /\ f.type # "multi"
                   THEN [f EXCEPT !.type = "multi", !.value = Arr(<<>>), !.collapsed = FALSE]
                   ELSE f
         IN  IF ~shouldBeMulti /\ f1.type # "text"
             THEN [f1 EXCEPT !.type = "text", !.value = Str(<<>>), !.collapsed = FALSE]
             ELSE f1

\* the per-column loop of buildFiltersUI, from column i on: the facet counts of a
\* column are taken from filterState as the columns before it left it, and its
\* control is rendered from the adjusted descriptor
RECURSIVE BuildFilterLoop(_, _, _)
BuildFilterLoop(m, built, i) ==
    IF i > Len(m.columns) THEN [m EXCEPT !.ui = [live |-> TRUE, filters |-> built]]
    ELSE LET col == m.columns[i]
             facetCounts == getFacetCountsSingle(m.filterState, m.columns, m.rawRows, col)
             f == ReclassifyFilter(col, m.filterState.columns[col], facetCounts)
         IN  BuildFilterLoop([m EXCEPT !.filterState.columns[col] = f],
                             Append(built, FilterControl(col, f, facetCounts)), i + 1)

\* function buildFiltersUI() of the variant, on a program state m
buildFiltersUISingle(m) ==
    IF m.rawRows = <<>> THEN m
    ELSE BuildFilterLoop(ensureFilterStateForColumns(m), <<>>, 1)

\* function applyFiltersAndRender(), on a program state m
applyFiltersAndRender(m) ==
    IF m.rawRows = <<>> THEN m
    ELSE buildFiltersUISingle(
            [m EXCEPT !.filteredRows =
                sortRows(m.sortState,
                    SelectSeq(m.rawRows,
                        LAMBDA r : rowMatchesFilters(m.filterState, m.columns, r, NoCol)))])

\* function applyPresetPayload(payload) of the variant
applyPresetPayloadSingle(m, payload) ==
    applyFiltersAndRender(buildFiltersUISingle(
        [m EXCEPT !.filterState = [global |-> payload.global, columns |-> payload.columns],
                  !.sortState = payload.sort]))

\* function autoCollapseIfActive(col), on a filter state
autoCollapseIfActive(st, col) ==
    LET f == st.columns[col]
        active == IF f.type = "text" THEN normalizeJsValue(f.value) # <<>>
                  ELSE IF f.type = "multi" THEN IsArray(f.value) /\ f.value.a # <<>>
                  ELSE FALSE
    IN  IF active THEN [st EXCEPT !.columns[col].collapsed = TRUE] ELSE st

\* does filterState hold a descriptor for the column a control was built for?
\* (if not, filterState.columns[col].value = ... throws and the listener stops)
HasFilter(m, i) == m.ui.filters[i].col \in DOMAIN m.filterState.columns

\* the frame of the variant's actions: what belongs to the two-phase program
SingleFrame == UNCHANGED <<appliedState, draftState, btnApplyDisabled, presets, pending,
                           savedViews, raw, presetSelect, other>>

\* csvFile "change" and the parse's complete(results): the dataset is replaced,
\* the filters and the sort are reset and the controls are enabled
SingleLoadFile(files) ==
    /\ \E data \in files : \E m \in
          {applyFiltersAndRender([CurSingle EXCEPT !.columns = data.columns,
                                                   !.rawRows = data.rows,
                                                   !.filterState = EmptyState,
                                                   !.sortState = DefaultSort])} :
          CommitSingle(m)
    /\ controlsEnabled' = TRUE
    /\ lastOp' = "load"
    /\ SingleFrame

\* inp "input" listener of a text filter
SingleEditText ==
    /\ \E i \in DOMAIN ui.filters, txt \in TextInputs :
          /\ ui.filters[i].kind = "text"
          /\ HasFilter(CurSingle, i)
          /\ \E m \in {applyFiltersAndRender(
                 [CurSingle EXCEPT !.filterState.columns[ui.filters[i].col].value = Str(txt)])} :
                CommitSingle(m)
    /\ lastOp' = "edit"
    /\ UNCHANGED controlsEnabled
    /\ SingleFrame

\* cb "change" listener: the user ticks or unticks option v of a multi-select
SingleToggleOption ==
    /\ \E i \in DOMAIN ui.filters :
          /\ ui.filters[i].kind = "multi"
          /\ HasFilter(CurSingle, i)
          /\ \E k \in DOMAIN ui.filters[i].options :
                LET col == ui.filters[i].col
                    v   == ui.filters[i].options[k]
                    old == ui.filters[i].selected
                    sel == IF ArrIncludes(old, v) THEN SelectSeq(old, LAMBDA x : x # v)
                           ELSE Append(old, v)
                    st  == [filterState EXCEPT !.columns[col].value = Arr(sel)]
                IN  /\ CountOf(ui.filters[i].counts, v) > 0 \/ ArrIncludes(old, v)
                    /\ \E m \in {applyFiltersAndRender(
                           [CurSingle EXCEPT !.filterState = autoCollapseIfActive(st, col)])} :
                          CommitSingle(m)
    /\ lastOp' = "edit"
    /\ UNCHANGED controlsEnabled
    /\ SingleFrame

\* btnNone "click" listener of a multi-select: Clear
SingleClearMulti ==
    /\ \E i \in DOMAIN ui.filters :
          /\ ui.filters[i].kind = "multi"
          /\ HasFilter(CurSingle, i)
          /\ \E m \in {applyFiltersAndRender(
                 [CurSingle EXCEPT !.filterState.columns[ui.filters[i].col].value = Arr(<<>>),
                                   !.filterState.columns[ui.filters[i].col].collapsed = FALSE])} :
                CommitSingle(m)
    /\ lastOp' = "edit"
    /\ UNCHANGED controlsEnabled
    /\ SingleFrame

\* globalSearch "input" listener
SingleEditGlobal ==
    /\ controlsEnabled
    /\ \E txt \in TextInputs :
          \E m \in {applyFiltersAndRender([CurSingle EXCEPT !.filterState.global = txt])} :
             CommitSingle(m)
    /\ lastOp' = "global"
    /\ UNCHANGED controlsEnabled
    /\ SingleFrame

\* btnClear "click" listener: every filter of the dataset's columns is emptied and
\* opened, the sort is reset
SingleClearAll ==
    /\ controlsEnabled
    /\ \E m \in {applyFiltersAndRender(
           [CurSingle EXCEPT
               !.filterState =
                   [global  |-> <<>>,
                    columns |-> [c \in DOMAIN filterState.columns |->
                                   IF c \in Range(columns)
                                   THEN [filterState.columns[c] EXCEPT
                                           !.value = IF filterState.columns[c].type = "text"
                                                     THEN Str(<<>>)
                                                     ELSE IF filterState.columns[c].type = "multi"
                                                     THEN Arr(<<>>) ELSE @,
                                           !.collapsed = FALSE]
                                   ELSE filterState.columns[c]]],
               !.sortState = DefaultSort])} :
          CommitSingle(m)
    /\ lastOp' = "clear"
    /\ UNCHANGED controlsEnabled
    /\ SingleFrame

\* btnLoadPreset "click" with a preset of the store chosen in presetSelect
SingleLoadPreset ==
    /\ controlsEnabled
    /\ \E k \in DOMAIN presets :
          \E m \in {applyPresetPayloadSingle(CurSingle, presets[k].payload)} : CommitSingle(m)
    /\ lastOp' = "preset"
    /\ UNCHANGED controlsEnabled
    /\ SingleFrame

NextSingle ==
    \/ SingleLoadFile({SmallData})
    \/ SingleEditText
    \/ SingleToggleOption
    \/ SingleClearMulti
    \/ SingleEditGlobal
    \/ SingleClearAll
    \/ SingleLoadPreset

\* the single-phase variant, a three-row file picked
SpecSingle == Init /\ [][NextSingle]_vars

----------------------------------------------------------------------------
(* The specification's statements, written without the code's loops *)

\* a successful load has happened
Loaded == controlsEnabled

ApplyEnabledCols(st, cols) == Range(cols) \cap DOMAIN st.columns

\* spec 4.5: the row satisfies the global search of st and the filter of every
\* column but exclude (a text filter's query is its normalized query)
SpecMatches(st, cols, row, exclude) ==
    /\ \/ Trim(st.global) = <<>>
       \/ \E c \in Range(cols) :
             Includes(ToLowerCase(Trim(Cell(row, c))), ToLowerCase(Trim(st.global)))
    /\ \A c \in ApplyEnabledCols(st, cols) \ {exclude} :
          LET f == st.columns[c] IN
          /\ (f.type = "text" /\ f.value.kind = "str") =>
                \/ Trim(f.value.s) = <<>>
                \/ Includes(ToLowerCase(Trim(Cell(row, c))), ToLowerCase(Trim(f.value.s)))
          /\ (f.type = "multi" /\ f.value.kind = "arr") =>
                \/ f.value.a = <<>>
                \/ Trim(Cell(row, c)) \in Range(f.value.a)

\* the indices of the raw rows that satisfy st, column exclude left out
SpecMatching(st, cols, rows, exclude) ==
    {i \in DOMAIN rows : SpecMatches(st, cols, rows[i], exclude)}

\* spec 4.4: value -> number of rows with that non-empty value that pass every
\* filter but the column's own
SpecFacetCounts(st, cols, rows, col) ==
    LET pass == SpecMatching(st, cols, rows, col)
        vals == {Trim(Cell(rows[i], col)) : i \in pass} \ {<<>>}
    IN  [v \in vals |-> Cardinality({i \in pass : Trim(Cell(rows[i], col)) = v})]

\* the matching raw rows in source order
PickRows(rows, idx) == PickAt(rows, SelectSeq(Indexes(rows), LAMBDA i : i \in idx))

\* spec 4.7: the matched row set of the applied state under the sort descriptor
SpecMatchedRowsOf(st, cols, rows, sort) ==
    sortRows(sort, PickRows(rows, SpecMatching(st, cols, rows, NoCol)))

SpecMatchedRows == SpecMatchedRowsOf(appliedState, columns, rawRows, sortState)

\* some filter of st constrains the rows
FilterActive(st) ==
    \/ Trim(st.global) # <<>>
    \/ \E c \in DOMAIN st.columns : normalizeJsValue(st.columns[c].value) # <<>>

\* the facet counts the rendered controls show
ShownCounts == [i \in DOMAIN ui.filters |-> ui.filters[i].counts.get]

----------------------------------------------------------------------------
(* Claims *)

\* C1 (apply gate): a draft edit (text, selection, Select All (visible), Clear,
\* global search, panel toggle) leaves the applied state, the matched rows, the
\* sort descriptor, the dataset and the shown facet counts unchanged; only the
\* draft, the controls' selection and the Apply button's state may change.
C1_ApplyGate ==
    [][lastOp' = "edit" =>
          /\ appliedState' = appliedState
          /\ filteredRows' = filteredRows
          /\ sortState' = sortState
          /\ rawRows' = rawRows
          /\ columns' = columns
          /\ ShownCounts' = ShownCounts
          /\ \A c \in Range(columns) :
                getFacetCountsForColumn(appliedState', columns', rawRows', c)
                    = getFacetCountsForColumn(appliedState, columns, rawRows, c)]_vars

\* C1 witness: an edit has left the draft different from the applied state, and
\* the edit would change the result if it were applied
C1_Witness ==
    /\ lastOp = "edit"
    /\ rawRows # <<>>
    /\ isDirty(appliedState, draftState)
    /\ FilterActive(draftState)
    /\ ~FilterActive(appliedState)
    /\ filteredRows = rawRows

\* C2 (as claimed): whenever a dataset is loaded, the matched rows are exactly the
\* raw rows that satisfy the applied state, in the order of the sort descriptor.
C2_MatchedFollowsApplied == Loaded => filteredRows = SpecMatchedRows

\* C2 on datasets with at least one row (not a claim's formula: the part of C2
\* the code keeps)
MatchedFollowsAppliedNonEmpty == (Loaded /\ rawRows # <<>>) => filteredRows = SpecMatchedRows

\* C3: right after apply(), applied holds the global string and every column's
\* type and value of the draft as it was when Apply was clicked, and the matched
\* rows and the shown facet counts are the ones that state determines.
C3_ApplyCommitsDraft ==
    [][lastOp' = "apply" =>
          /\ StripCollapsed(appliedState') = StripCollapsed(draftState)
          /\ filteredRows' = SpecMatchedRowsOf(appliedState', columns', rawRows', sortState')
          /\ \A i \in DOMAIN ui'.filters :
                ui'.filters[i].counts.get =
                    SpecFacetCounts(appliedState', columns', rawRows', ui'.filters[i].col)]_vars

\* C3 witness: an apply has committed a filter that keeps some rows and drops others
C3_Witness ==
    /\ lastOp = "apply"
    /\ FilterActive(appliedState)
    /\ filteredRows # <<>>
    /\ Len(filteredRows) < Len(rawRows)

\* C4 (as claimed): once apply() has completed, isDirty() is false.
C4_ApplyClearsDirty == lastOp = "apply" => ~isDirty(appliedState, draftState)

\* C5 (Row Matcher): for every raw row and every column left out (or none), the
\* code's rowMatchesApplied is true iff the trimmed global string is empty or some
\* column's normalized value contains it case-insensitively, and every other
\* column's text filter has an empty (normalized) query or the row's value
\* contains it case-insensitively, and every other column's multi filter has an
\* empty selection or the row's normalized value is a member of it.
C5_RowMatcher ==
    Loaded =>
        \A i \in DOMAIN rawRows : \A ex \in {NoCol} \cup Range(columns) :
            rowMatchesApplied(appliedState, columns, rawRows[i], ex)
                <=> SpecMatches(appliedState, columns, rawRows[i], ex)

\* C5 witness: a multi selection, a text query and a global string are applied
\* together; some rows match and some do not
C5_Witness ==
    /\ Loaded
    /\ Trim(appliedState.global) # <<>>
    /\ \E c \in ApplyEnabledCols(appliedState, columns) :
          /\ appliedState.columns[c].type = "multi"
          /\ normalizeJsValue(appliedState.columns[c].value) # <<>>
    /\ \E c \in ApplyEnabledCols(appliedState, columns) :
          /\ appliedState.columns[c].type = "text"
          /\ normalizeJsValue(appliedState.columns[c].value) # <<>>
    /\ \E i \in DOMAIN rawRows : rowMatchesApplied(appliedState, columns, rawRows[i], NoCol)
    /\ \E i \in DOMAIN rawRows : ~rowMatchesApplied(appliedState, columns, rawRows[i], NoCol)

\* C6 (Facet Count Engine): for every column c, the code's facet counts of c map
\* each non-empty normalized value v to the number of raw rows with that value
\* that satisfy the applied global search and every applied filter but c's own;
\* a value no such row has, and the empty value, have no entry.  The rendered
\* controls show these counts.
C6_FacetCounts ==
    Loaded =>
        /\ \A c \in Range(columns) :
              getFacetCountsForColumn(appliedState, columns, rawRows, c).get
                  = SpecFacetCounts(appliedState, columns, rawRows, c)
        /\ ui.live =>
              \A i \in DOMAIN ui.filters :
                  ui.filters[i].counts.get
                      = SpecFacetCounts(appliedState, columns, rawRows, ui.filters[i].col)

\* C6 witness: under an active filter one column's counts drop a value of the
\* dataset, and a passing row with an empty value is left out of another's counts
C6_Witness ==
    /\ Loaded
    /\ FilterActive(appliedState)
    /\ \E c \in Range(columns) :
          LET counts == getFacetCountsForColumn(appliedState, columns, rawRows, c).get IN
          /\ DOMAIN counts # {}
          /\ \E i \in DOMAIN rawRows :
                /\ Trim(Cell(rawRows[i], c)) # <<>>
                /\ Trim(Cell(rawRows[i], c)) \notin DOMAIN counts
    /\ \E c \in Range(columns) :
          LET counts == getFacetCountsForColumn(appliedState, columns, rawRows, c).get IN
          /\ DOMAIN counts # {}
          /\ \E i \in DOMAIN rawRows :
                /\ Trim(Cell(rawRows[i], c)) = <<>>
                /\ rowMatchesApplied(appliedState, columns, rawRows[i], c)

\* the values a descriptor of the given type can take on this dataset
AltValues(rows, col, type) ==
    IF type = "multi"
    THEN {Arr(<<>>)} \cup {Arr(<<Trim(Cell(rows[i], col))>>) : i \in DOMAIN rows}
    ELSE {Str(s) : s \in TextInputs} \cup {Str(Trim(Cell(rows[i], col))) : i \in DOMAIN rows}

\* C7 (facet exclusion): for every column c, the facet counts of c are the same
\* in the applied state and in every state that differs from it only in the
\* value of c's own descriptor.
C7_FacetExclusion ==
    Loaded =>
        \A c \in ApplyEnabledCols(appliedState, columns) :
            \A v \in AltValues(rawRows, c, appliedState.columns[c].type) :
                getFacetCountsForColumn(
                    [appliedState EXCEPT !.columns[c].value = v], columns, rawRows, c)
                  = getFacetCountsForColumn(appliedState, columns, rawRows, c)

\* C7 witness: Model = {A} has been applied with no other filter active; two rows
\* match and Model's counts are still {A: 2, B: 1}
C7_Witness ==
    /\ lastOp = "apply"
    /\ ColModel \in DOMAIN appliedState.columns
    /\ appliedState.columns[ColModel].value = Arr(<< <<"A">> >>)
    /\ \A c \in DOMAIN appliedState.columns \ {ColModel} :
          normalizeJsValue(appliedState.columns[c].value) = <<>>
    /\ Trim(appliedState.global) = <<>>
    /\ Len(filteredRows) = 2
    /\ getFacetCountsForColumn(appliedState, columns, rawRows, ColModel).get
          = (<<"A">> :> 2 @@ <<"B">> :> 1)

\* spec 4.3: the type of a column with n distinct non-empty values
SpecClassify(col, n) ==
    IF ToLowerCase(Trim(col)) \in FORCE_MULTI_COLUMNS THEN "multi"
    ELSE IF n >= 1 /\ n <= 30 THEN "multi"
    ELSE "text"

\* the number of distinct non-empty values of col among the rows that pass every
\* applied filter but col's own (all rows when no filter is applied)
SpecDistinct(st, cols, rows, col) == Cardinality(DOMAIN SpecFacetCounts(st, cols, rows, col))

\* C8 (classification): on a dataset with rows, and right after any load, each
\* column's draft type is multi when its trimmed, case-folded name is in the
\* always-multi set, and otherwise multi iff the number of its distinct non-empty
\* normalized values among the rows passing the other applied filters is in
\* 1..30, text when it is 0 or above 30; right after a load (no filter applied:
\* all rows are the source) the applied type is classified the same way.
C8_Classification ==
    (Loaded /\ (rawRows # <<>> \/ lastOp = "load")) =>
        \A c \in Range(columns) :
            LET type == SpecClassify(c, SpecDistinct(appliedState, columns, rawRows, c)) IN
            /\ c \in DOMAIN draftState.columns
            /\ draftState.columns[c].type = type
            /\ lastOp = "load" =>
                  /\ c \in DOMAIN appliedState.columns
                  /\ appliedState.columns[c].type = type

\* C8 witness: a column with exactly 30 distinct values under the applied
\* filters is multi, though it has more than 30 over all rows, next to a forced
\* column whose name needs trimming and case folding
C8_Witness ==
    /\ Loaded
    /\ \E c \in Range(columns) :
          /\ ~isForcedMulti(c)
          /\ SpecDistinct(appliedState, columns, rawRows, c) = 30
          /\ SpecDistinct(EmptyState, columns, rawRows, c) > 30
          /\ draftState.columns[c].type = "multi"
    /\ \E c \in Range(columns) :
          /\ c \notin FORCE_MULTI_COLUMNS
          /\ ToLowerCase(Trim(c)) \in FORCE_MULTI_COLUMNS
          /\ draftState.columns[c].type = "multi"

\* more than 30 distinct values: text (not a claim's formula; the other side of C8)
OverThresholdIsText ==
    /\ Loaded
    /\ \E c \in Range(columns) :
          /\ SpecDistinct(appliedState, columns, rawRows, c) > 30
          /\ draftState.columns[c].type = "text"
          /\ appliedState.columns[c].type = "text"

\* C9 (as claimed): after a successful load, every forced column has a multi
\* descriptor in both the applied and the draft state.
C9_ForcedIsMulti ==
    Loaded =>
        \A c \in Range(columns) :
            isForcedMulti(c) =>
                /\ c \in DOMAIN appliedState.columns
                /\ appliedState.columns[c].type = "multi"
                /\ c \in DOMAIN draftState.columns
                /\ draftState.columns[c].type = "multi"

\* C9 on datasets with at least one row (not a claim's formula)
ForcedIsMultiNonEmpty == (rawRows # <<>>) => C9_ForcedIsMulti

\* C10 (as claimed): after the first successful load, every column has a
\* descriptor in both applied.columns and draft.columns.
C10_EveryColumnHasDescriptor ==
    Loaded =>
        \A c \in Range(columns) :
            c \in DOMAIN appliedState.columns /\ c \in DOMAIN draftState.columns

\* C10 on datasets with at least one row (not a claim's formula)
EveryColumnHasDescriptorNonEmpty == (rawRows # <<>>) => C10_EveryColumnHasDescriptor

\* the value of a descriptor has the shape of its type
WellTyped(f) ==
    /\ f.type = "text" => f.value.kind = "str"
    /\ f.type = "multi" => f.value.kind = "arr"

AllWellTyped(st) == \A c \in DOMAIN st.columns : WellTyped(st.columns[c])

\* C11 (as claimed): in every reachable state every descriptor of applied and of
\* draft has a value of the shape of its type (text: a string, multi: a list).
C11_WellTypedDescriptors == AllWellTyped(appliedState) /\ AllWellTyped(draftState)

\* C11 on datasets with at least one row (not a claim's formula: the part of C11
\* the code keeps, the repair of ensureStateSchemas having run)
WellTypedNonEmpty == (rawRows # <<>>) => C11_WellTypedDescriptors

\* spec 4.6: the same global string and, per column, the same type and the same
\* value, a multi-select's value being the set of its selected strings
SameFilters(a, d) ==
    /\ a.global = d.global
    /\ DOMAIN a.columns = DOMAIN d.columns
    /\ \A c \in DOMAIN a.columns \cap DOMAIN d.columns :
          /\ a.columns[c].type = d.columns[c].type
          /\ IF IsArray(a.columns[c].value) /\ IsArray(d.columns[c].value)
             THEN Range(a.columns[c].value.a) = Range(d.columns[c].value.a)
             ELSE a.columns[c].value = d.columns[c].value

\* C12 (as claimed): isDirty() is false exactly when applied and draft have the
\* same global string and, for every column, the same type and the same value, a
\* multi-select value compared as a set of selected strings.
C12_DirtyIffDifferent ==
    isDirty(appliedState, draftState) <=> ~SameFilters(appliedState, draftState)

\* the selections of applied and draft hold the same strings in the same order
\* wherever they hold the same strings
SameOrder(a, d) ==
    \A c \in DOMAIN a.columns \cap DOMAIN d.columns :
        (IsArray(a.columns[c].value) /\ IsArray(d.columns[c].value)
            /\ Range(a.columns[c].value.a) = Range(d.columns[c].value.a))
        => a.columns[c].value = d.columns[c].value

\* C12 but for the order of a selection (not a claim's formula: the part of C12
\* the code keeps)
DirtyIffDifferentInOrder ==
    SameOrder(appliedState, draftState) => C12_DirtyIffDifferent

\* the number of times x occurs in arr
Occurrences(arr, x) == Cardinality({i \in DOMAIN arr : arr[i] = x})

\* a and b hold the same rows, each as many times
SameRows(a, b) ==
    /\ Len(a) = Len(b)
    /\ \A x \in Range(a) \cup Range(b) : Occurrences(a, x) = Occurrences(b, x)

\* what changeSort leaves alone: the filters, the dirtiness, the facet counts
\* (computed and shown), the dataset, and which rows are matched
SortFrameStep ==
    /\ appliedState' = appliedState
    /\ draftState' = draftState
    /\ isDirty(appliedState', draftState') = isDirty(appliedState, draftState)
    /\ btnApplyDisabled' = btnApplyDisabled
    /\ rawRows' = rawRows
    /\ columns' = columns
    /\ ShownCounts' = ShownCounts
    /\ \A c \in Range(columns) :
          getFacetCountsForColumn(appliedState', columns', rawRows', c)
              = getFacetCountsForColumn(appliedState, columns, rawRows, c)
    /\ SameRows(filteredRows', filteredRows)

\* the matched rows after the step are those of the applied filters in the order
\* of the new sort descriptor
SortedStep == filteredRows' = SpecMatchedRowsOf(appliedState', columns', rawRows', sortState')

\* C13 (as claimed): changeSort leaves the applied state, the draft state, the
\* value of isDirty() and every column's facet counts unchanged; the matched rows
\* after it are the same rows as before, and they are the rows of the current
\* applied filters in the order of the new sort descriptor.
C13_SortOnlyReorders == [][lastOp' = "sort" => (SortFrameStep /\ SortedStep)]_vars

\* C13's frame alone (not a claim's formula: changeSort touches nothing but sort)
SortFrame == [][lastOp' = "sort" => SortFrameStep]_vars

\* C13 on datasets with at least one row (not a claim's formula)
SortOnlyReordersNonEmpty ==
    [][(lastOp' = "sort" /\ rawRows # <<>>) => (SortFrameStep /\ SortedStep)]_vars

\* a sort has re-ordered a filtered result (not a claim's formula: reached)
SortReordered ==
    /\ lastOp = "sort"
    /\ FilterActive(appliedState)
    /\ Len(filteredRows) > 1
    /\ filteredRows # FilterRows(appliedState, columns, rawRows)

\* spec 4.7: the sort descriptor after changeSort(c)
SpecChangeSort(sort, c) ==
    IF sort.col = c
    THEN [col |-> c, dir |-> IF sort.dir = "asc" THEN "desc" ELSE "asc"]
    ELSE [col |-> c, dir |-> "asc"]

\* C14: in every reachable state, a click on the header of any column c leaves
\* the sort column c with the direction toggled if c was the sort column, and
\* makes c the sort column with direction ascending otherwise, whatever the
\* direction was; and every sort step of the program is such a click.
C14_ChangeSortTransition ==
    /\ \A c \in Range(columns) :
          sortClickHandler(Cur, c).sortState = SpecChangeSort(sortState, c)
    /\ lastOp = "sort" => (sortState.col \in Range(columns) /\ sortState.dir \in {"asc", "desc"})

\* C14 witness: a second click has toggled the sort column to descending; a
\* click on another column would make that column the sort column, ascending,
\* and a third click on the same column would toggle it back
C14_Witness ==
    /\ lastOp = "sort"
    /\ sortState.dir = "desc"
    /\ \E c \in Range(columns) :
          /\ c # sortState.col
          /\ sortClickHandler(Cur, c).sortState = [col |-> c, dir |-> "asc"]
    /\ sortClickHandler(Cur, sortState.col).sortState = [col |-> sortState.col, dir |-> "asc"]

\* the empty filters load() leaves in st for the columns cols of the rows
FreshFilters(st, cols, rows) ==
    /\ st.global = <<>>
    /\ DOMAIN st.columns = Range(cols)
    /\ \A c \in Range(cols) :
          /\ st.columns[c].type = SpecClassify(c, SpecDistinct(EmptyState, cols, rows, c))
          /\ st.columns[c].value = EmptyValue(st.columns[c].type)
          /\ st.columns[c].collapsed = TRUE

C16_LoadShowsAllRows == lastOp = "load" => filteredRows = rawRows

\* C16 on datasets with at least one row (not a claim's formula: the part of C16
\* the code keeps)
LoadShowsAllRowsNonEmpty == (lastOp = "load" /\ rawRows # <<>>) => filteredRows = rawRows

\* the stored preset with the given id (presets.find(x => x.id === id))
PresetById(id) == presets[CHOOSE k \in DOMAIN presets : presets[k].id = id]

\* the program state after loading, now, the preset saved as view v
ReloadOf(v) == applyPresetPayload(Cur, PresetById(v.id).payload)

\* C20 (preset idempotence): for every preset saved from a committed state S on
\* the loaded dataset, loading it in any state reached from S by edits, applies,
\* clears, sorts and preset loads on the same dataset (or at once) gives the
\* matched rows of S, in the same order, and the facet counts of S for every
\* column.
C20_PresetIdempotence ==
    \A k \in DOMAIN savedViews :
        /\ ReloadOf(savedViews[k]).filteredRows = savedViews[k].rows
        /\ FacetCountsOf(ReloadOf(savedViews[k])) = savedViews[k].counts

\* C20 witness: a preset saved from a filtered and sorted view has just been
\* loaded, and the view is the saved one: some rows matched, some not
C20_Witness ==
    /\ lastOp = "preset"
    /\ rawRows # <<>>
    /\ \E k \in DOMAIN savedViews :
          /\ currentPresetPayload(Cur) = PresetById(savedViews[k].id).payload
          /\ FilterActive(appliedState)
          /\ sortState.col # NoCol
          /\ filteredRows = savedViews[k].rows
          /\ Len(filteredRows) < Len(rawRows)
          /\ filteredRows # <<>>
          /\ FacetCountsOf(Cur) = savedViews[k].counts

\* the Empty state of the next state: no dataset, no filter, Apply disabled
EmptyAfter ==
    /\ rawRows' = <<>>
    /\ columns' = <<>>
    /\ filteredRows' = <<>>
    /\ appliedState' = EmptyState
    /\ draftState' = EmptyState
    /\ sortState' = DefaultSort
    /\ btnApplyDisabled'

FailedWhileEmpty == lastOp = "loadError" /\ ~controlsEnabled /\ rawRows = <<>>

\* the global string is empty and every descriptor holds the empty value of its
\* type, collapsed
Cleared(st) ==
    /\ st.global = <<>>
    /\ \A c \in DOMAIN st.columns :
          /\ st.columns[c].value = EmptyValue(st.columns[c].type)
          /\ st.columns[c].collapsed = TRUE

\* C18 (as claimed): right after clearAll(), applied and draft both have an
\* empty global string and every column descriptor at its type's empty value
\* with collapsed = true, the sort descriptor is {none, ascending}, and the
\* matched rows are all raw rows in source order.
C18_ClearAllResets ==
    lastOp = "clear" =>
        /\ Cleared(appliedState)
        /\ Cleared(draftState)
        /\ sortState = DefaultSort
        /\ filteredRows = rawRows

\* C18 without the matched rows (not a claim's formula: holds on every dataset)
ClearAllResetsFilters ==
    lastOp = "clear" =>
        (Cleared(appliedState) /\ Cleared(draftState) /\ sortState = DefaultSort)

\* C18 on datasets with at least one row (not a claim's formula)
ClearAllResetsNonEmpty == (rawRows # <<>>) => C18_ClearAllResets

\* the payloads the Load preset button can load
StoredPayloads == {presets[k].payload : k \in DOMAIN presets}

\* C19 (as claimed): right after loadPreset(payload), applied holds the payload's
\* global string, column descriptors and sort, draft is a copy of that applied
\* state with every collapsed flag true, and isDirty() is false.
C19_LoadPresetMirrors ==
    lastOp = "preset" =>
        /\ \E p \in StoredPayloads :
              /\ appliedState.global = p.global
              /\ appliedState.columns = p.columns
              /\ sortState = p.sort
        /\ draftState = CollapseAll(appliedState)
        /\ ~isDirty(appliedState, draftState)

\* the global string and the sort descriptor are the payload's (not a claim's
\* formula: the part of C19 that holds in every state)
LoadPresetGlobalAndSort ==
    lastOp = "preset" =>
        \E p \in StoredPayloads : appliedState.global = p.global /\ sortState = p.sort

\* the descriptors of a payload fit the dataset: one per column, well typed, the
\* forced columns multi
FitsDataset(p, cols) ==
    /\ DOMAIN p.columns = Range(cols)
    /\ \A c \in DOMAIN p.columns :
          /\ WellTyped(p.columns[c])
          /\ isForcedMulti(c) => p.columns[c].type = "multi"

\* applied holds the descriptors of a payload that fits the dataset (not a
\* claim's formula)
LoadPresetKeepsFitting ==
    lastOp = "preset" =>
        \E p \in StoredPayloads :
            /\ appliedState.global = p.global
            /\ sortState = p.sort
            /\ FitsDataset(p, columns) => appliedState.columns = p.columns

\* after a preset load the draft is clean (not a claim's formula: violated)
LoadPresetClean == lastOp = "preset" => ~isDirty(appliedState, draftState)

\* C21: a step that saves a preset puts at the head of the store the applied
\* state and the sort descriptor of that moment (not the draft), and no draft
\* edit, apply, clearAll, changeSort or loadPreset step changes the store.
C21_PresetIsAppliedSnapshot ==
    [][/\ (lastOp' = "save" /\ presets' # presets) =>
              /\ Head(presets').payload =
                    [global |-> appliedState.global, columns |-> appliedState.columns,
                     sort |-> sortState]
              /\ Tail(presets') = presets
       /\ lastOp' \in {"edit", "apply", "clear", "sort", "preset"} => presets' = presets]_vars

\* C21 witness: a preset has just been saved while the draft held unapplied
\* edits; the stored payload is the applied state, which differs from the draft
C21_Witness ==
    /\ lastOp = "save"
    /\ savedViews # <<>>
    /\ isDirty(appliedState, draftState)
    /\ PresetById(Head(savedViews).id).payload = currentPresetPayload(Cur)
    /\ PresetById(Head(savedViews).id).payload # currentPresetPayload_Draft(Cur)

\* a stored payload has outlived the applied state it was saved from (not a
\* claim's formula: reached)
PayloadOutlivesApplied ==
    /\ lastOp \in {"apply", "clear", "sort"}
    /\ \E k \in DOMAIN savedViews :
          PresetById(savedViews[k].id).payload # currentPresetPayload(Cur)

\* C22: in every state reached by saves, renames and deletes (and overwrites of
\* the store from outside), the list of presets read from the store is ordered
\* most recently saved first: the earlier of two presets has the later
\* createdAt.
C22_ListNewestFirst ==
    \A i, j \in DOMAIN readPresets :
        i < j => readPresets[i].createdAt > readPresets[j].createdAt

\* C22 witness: after a rename, the list holds a preset saved in this session
\* before one of an earlier session
C22_Witness ==
    /\ lastOp = "rename"
    /\ Len(readPresets) >= 2
    /\ Head(readPresets).createdAt > Len(StoredPresets)
    /\ \E k \in DOMAIN readPresets : readPresets[k].name = <<"r">>
    /\ presetSelect = OptionsOf(readPresets)

\* the record of a preset with its name left out of the comparison
Unnamed(p) == [p EXCEPT !.name = <<>>]

\* does list b differ from list a in nothing but the name of the preset id?
OnlyRenamed(a, b, id) ==
    /\ Len(b) = Len(a)
    /\ \A k \in DOMAIN a :
          IF a[k].id = id THEN Unnamed(b[k]) = Unnamed(a[k]) ELSE b[k] = a[k]

\* is list b list a without the preset id, the others in their order?
OnlyDeleted(a, b, id) ==
    \E k \in DOMAIN a :
        /\ a[k].id = id
        /\ b = SubSeq(a, 1, k - 1) \o SubSeq(a, k + 1, Len(a))

\* C23: a rename step changes at most the name of one preset of the list, the
\* preset chosen in presetSelect, and a delete step removes at most that one
\* preset; both leave every other preset, the id, payload and createdAt of the
\* renamed one, the applied and draft states, the sort descriptor and the rows
\* as they were.
C23_RenameDeleteFrame ==
    [][/\ lastOp' = "rename" =>
             /\ \/ readPresets' = readPresets
                \/ \E id \in OptionValues : OnlyRenamed(readPresets, readPresets', id)
             /\ UNCHANGED <<appliedState, draftState, sortState, filteredRows, rawRows>>
       /\ lastOp' = "delete" =>
             /\ \/ readPresets' = readPresets
                \/ \E id \in OptionValues : OnlyDeleted(readPresets, readPresets', id)
             /\ UNCHANGED <<appliedState, draftState, sortState, filteredRows, rawRows>>]_vars

\* C23 witness: one preset of several has just been renamed, over a filtered and
\* sorted view
C23_Witness ==
    /\ lastOp = "rename"
    /\ Len(readPresets) >= 2
    /\ Cardinality({k \in DOMAIN readPresets : readPresets[k].name = <<"r">>}) = 1
    /\ FilterActive(appliedState)
    /\ sortState.col # NoCol
    /\ filteredRows # <<>>

\* a preset has just been deleted from between two others, over a filtered view
DeletedFromMiddle ==
    /\ lastOp = "delete"
    /\ Len(readPresets) = 2
    /\ Head(readPresets).createdAt = 4
    /\ readPresets[2].id = 2
    /\ FilterActive(appliedState)

\* C24: a save step either leaves the preset store exactly as it was, or puts at
\* its head a preset with a non-empty name without surrounding whitespace; in
\* both cases the applied and draft states, the sort descriptor and the rows are
\* unchanged. (A save with an empty or whitespace-only name is the first case.)
C24_BlankNameRejected ==
    [][lastOp' = "save" =>
          /\ \/ UNCHANGED <<presets, raw, presetSelect>>
             \/ /\ presets' # <<>>
                /\ Head(presets').name # <<>>
                /\ normalizeValue(Head(presets').name) = Head(presets').name
                /\ Tail(presets') = readPresets
          /\ UNCHANGED <<appliedState, draftState, sortState, filteredRows, rawRows>>]_vars

\* C24 witness: the last step was a save and the store holds no preset of this
\* session: the save was one with a blank name, over a filtered view
C24_Witness ==
    /\ lastOp = "save"
    /\ raw = "array"
    /\ presets # <<>>
    /\ \A k \in DOMAIN presets : presets[k].createdAt < Len(StoredPresets) + MaxSaved
    /\ savedViews = <<>>
    /\ FilterActive(appliedState)

\* C25: a load step for a chosen preset that the store does not hold changes
\* nothing: not the applied or draft state, the sort descriptor, the rows, the
\* controls or the store.
C25_MissingPresetNoChange ==
    [][lastOp' = "missing" =>
          UNCHANGED <<appliedState, draftState, sortState, filteredRows, rawRows, columns,
                      btnApplyDisabled, ui, presets, raw, presetSelect>>]_vars

\* C25 witness: a preset that presetSelect still offers, and the store no longer
\* holds, has just been chosen and loaded over a filtered and sorted view
C25_Witness ==
    /\ lastOp = "missing"
    /\ \E id \in OptionValues : \A k \in DOMAIN readPresets : readPresets[k].id # id
    /\ readPresets # <<>>
    /\ FilterActive(appliedState)
    /\ sortState.col # NoCol

\* C26: whenever the text stored under PRESETS_KEY is not the JSON of an array of
\* presets, reading the presets gives an empty array, and no step of the page
\* ends in an uncaught exception.
C26_CorruptStoreDegrades ==
    /\ raw # "array" => (ReadsArray /\ readPresets = <<>>)
    /\ lastOp # "throw"

\* a preset handler has thrown over a store holding the JSON of an object
ThrowOverObject ==
    /\ lastOp = "throw"
    /\ raw = "object"
    /\ rawRows # <<>>
    /\ ui.live

\* a file has been loaded over such a store: the callback stopped before the
\* filter controls and the table body were built
LoadAbortedOverObject ==
    /\ lastOp = "throw"
    /\ raw = "object"
    /\ rawRows # <<>>
    /\ filteredRows = <<>>
    /\ ~ui.live

\* text that JSON.parse rejects reads as an empty list, and no step throws
GarbledDegrades ==
    raw = "garbled" => (readPresets = <<>> /\ lastOp # "throw")

\* the store has been found garbled, and a preset saved over it
SavedOverGarbled ==
    /\ lastOp = "save"
    /\ raw = "array"
    /\ Len(presets) = 1
    /\ Head(presets).createdAt > Len(StoredPresets)
    /\ presetSelect = OptionsOf(presets)

\* C27: every step taken in one report section (a load, a draft edit, an apply,
\* a Clear All, a sort click, a preset save, load, rename or delete) leaves the
\* other section's raw rows, columns, applied and draft state, sort descriptor,
\* matched rows and preset list as they were.
C27_SectionsIndependent ==
    [][/\ lastOp' = "other" =>
             /\ UNCHANGED <<rawRows, columns, appliedState, draftState, sortState,
                            filteredRows>>
             /\ readPresets' = readPresets
       /\ lastOp' # "other" =>
             /\ other'.m = other.m
             /\ OtherReadPresets' = OtherReadPresets]_vars

\* C27 witness: both sections hold a dataset and presets; the section of the
\* variables has just saved a preset over a sorted view while the other section
\* shows an unsorted view filtered by its own search text, its list still the
\* one it started with
C27_Witness ==
    /\ lastOp = "save"
    /\ Len(readPresets) = 2
    /\ sortState.col # NoCol
    /\ other.m.rawRows # <<>>
    /\ other.m.appliedState.global # <<>>
    /\ other.m.sortState = DefaultSort
    /\ Len(other.m.filteredRows) < Len(other.m.rawRows)
    /\ OtherReadPresets = <<PresetLegacy>>

\* the other section has just deleted its preset and cleared its filters, the
\* first section keeping a preset-loaded view and its own list
OtherActedAlone ==
    /\ lastOp = "other"
    /\ OtherReadPresets = <<>>
    /\ other.m.rawRows # <<>>
    /\ FilterActive(appliedState)
    /\ Len(readPresets) = 2

\* the CSV line of a row under the columns cols
CsvLine(cols, row) == JoinComma([k \in DOMAIN cols |-> escapeCsvValue(Cell(row, cols[k]))])

\* the lines after the header line in an exported text
RowLines(out) == IF out = <<>> THEN <<>> ELSE Tail(out)

\* the lines of the rows rows under the columns cols, in their order
LinesOf(cols, rows) == [i \in DOMAIN rows |-> CsvLine(cols, rows[i])]

\* C28: in every state where Export can be clicked, the text it writes has, after
\* the header of the column names in column order, exactly one line for each row
\* matched by the applied filters over the loaded dataset, in the order of the
\* sort descriptor, each with the cells in column order, however many rows the
\* table body shows.
C28_ExportIsMatchedRows ==
    controlsEnabled =>
        /\ RowLines(exportFilteredCsv(Cur)) = LinesOf(columns, SpecMatchedRows)
        /\ exportFilteredCsv(Cur) # <<>> =>
              Head(exportFilteredCsv(Cur)) =
                  JoinComma([k \in DOMAIN columns |-> escapeCsvValue(columns[k])])

\* C28 on datasets with at least one row (not a claim's formula)
ExportIsMatchedRowsNonEmpty == (rawRows # <<>>) => C28_ExportIsMatchedRows

\* the export writes every row of filteredRows, in order (not a claim's formula)
ExportWritesFilteredRows ==
    controlsEnabled => RowLines(exportFilteredCsv(Cur)) = LinesOf(columns, filteredRows)

\* more rows are matched than the table body shows, in an order set by a sort
\* click, and the export writes them all
ExportBeyondDisplayed ==
    /\ lastOp = "sort"
    /\ rawRows # <<>>
    /\ Len(DisplayedRows(Cur)) = RENDER_LIMIT
    /\ Len(filteredRows) > RENDER_LIMIT
    /\ Len(exportFilteredCsv(Cur)) = Len(filteredRows) + 1
    /\ filteredRows # rawRows

\* after a header-only file, the export still writes the rows of the file before
ExportOfStaleRows ==
    /\ lastOp = "load"
    /\ rawRows = <<>>
    /\ Len(exportFilteredCsv(Cur)) > 1

\* the rows matched by the applied filters, in source order: the input of the sort
SortInput == FilterRows(appliedState, columns, rawRows)

\* every sort descriptor the column headers can set, and the one of a fresh load
SortDescriptors ==
    {DefaultSort} \cup {[col |-> c, dir |-> d] : c \in Range(columns), d \in {"asc", "desc"}}

\* do the rows of each value of column c stand in out in the order they have in rows?
KeepsKeyOrder(c, rows, out) ==
    \A x \in Range(rows) :
        SelectSeq(out, LAMBDA r : normalizeValue(Cell(r, c)) = normalizeValue(Cell(x, c)))
            = SelectSeq(rows, LAMBDA r : normalizeValue(Cell(r, c)) = normalizeValue(Cell(x, c)))

\* out is rows sorted as C29 says, under the descriptor sd
StablePermutation(sd, rows, out) ==
    /\ SameRows(rows, out)
    /\ sd.col = NoCol => out = rows
    /\ sd.col # NoCol => KeepsKeyOrder(sd.col, rows, out)

\* C29: in every reachable state and for every sort descriptor, sorting the
\* matched rows gives a permutation of them: the same sequence when there is no
\* sort column, and otherwise one in which the rows with equal sort keys keep their
\* relative source order, ascending and descending; the matched rows shown are
\* such a result for the current descriptor whenever the dataset has rows.
C29_SortIsStablePermutation ==
    /\ \A sd \in SortDescriptors : StablePermutation(sd, SortInput, sortRows(sd, SortInput))
    /\ rawRows # <<>> => StablePermutation(sortState, SortInput, filteredRows)

\* the comparator of the sort descriptor sd is a consistent order on the rows:
\* no three of them go round in a circle
ConsistentOn(sd, rows) ==
    \A a, b, c \in Range(rows) :
        (CompareRows(sd, a, b) <= 0 /\ CompareRows(sd, b, c) <= 0) => CompareRows(sd, a, c) <= 0

\* C29 where the comparator is a consistent order (not a claim's formula)
StableWhereConsistent ==
    /\ \A sd \in SortDescriptors :
          (sd.col # NoCol /\ ConsistentOn(sd, SortInput)) =>
              StablePermutation(sd, SortInput, sortRows(sd, SortInput))
    /\ StablePermutation(DefaultSort, SortInput, sortRows(DefaultSort, SortInput))

\* a sort step leaves the raw rows as they were (not a claim's formula)
SortKeepsRawRows == [][lastOp' = "sort" => rawRows' = rawRows]_vars

\* rows of equal keys have kept their source order in a descending sort of a
\* dataset the comparator orders consistently (Model = A, A, B)
StableOnSmallData ==
    /\ lastOp = "sort"
    /\ sortState = [col |-> ColModel, dir |-> "desc"]
    /\ rawRows = SmallData.rows
    /\ filteredRows = <<rawRows[3], rawRows[1], rawRows[2]>>

\* the two rows of value 1e3 have changed places in an ascending sort
EqualKeysSwapped ==
    /\ lastOp = "sort"
    /\ sortState = [col |-> ColNotes, dir |-> "asc"]
    /\ rawRows = CyclicData.rows
    /\ ValuesOf(filteredRows, ColSite) = << <<"d">>, <<"c">>, <<"b">>, <<"a">> >>

\* the values 10, 2, item9, item10 sorted descending: item10, item9, 10, 2
DescendingOnNaturalData ==
    /\ lastOp = "sort"
    /\ sortState.dir = "desc"
    /\ rawRows = NaturalData.rows
    /\ ValuesOf(filteredRows, ColSite) = << <<"d">>, <<"c">>, <<"a">>, <<"b">> >>

\* the order C30 states for two rows under the descriptor sd: numeric when both
\* values are numbers, that of case-insensitive natural strings otherwise, the sign
\* flipped when descending
ClaimedOrder(sd, a, b) ==
    LET av == normalizeValue(Cell(a, sd.col))
        bv == normalizeValue(Cell(b, sd.col))
        c  == IF IsNumeric(av) /\ IsNumeric(bv)
              THEN Sign(NumberValue(av) - NumberValue(bv))
              ELSE LocaleCompareNumericBase(av, bv)
    IN  IF sd.dir = "asc" THEN c ELSE -c

\* are the rows out in the claimed order, every earlier row before or equal to
\* every later one?
InClaimedOrder(sd, out) ==
    \A i, j \in DOMAIN out : i < j => ClaimedOrder(sd, out[i], out[j]) <= 0

\* C30: in every reachable state and for every sort descriptor with a column, the
\* sorted matched rows stand in the claimed order, pair by pair: numerically when
\* both values are finite numbers, as case-insensitive natural strings otherwise,
\* reversed when descending; and the values 10, 2, item9, item10 sorted ascending
\* are 2, 10, item9, item10.
C30_SortOrdering ==
    /\ \A sd \in SortDescriptors :
          sd.col # NoCol => InClaimedOrder(sd, sortRows(sd, SortInput))
    /\ rawRows = NaturalData.rows =>
          ValuesOf(sortRows([col |-> ColNotes, dir |-> "asc"], rawRows), ColNotes) =
              << <<"2">>, <<"1","0">>, <<"i","t","e","m","9">>, <<"i","t","e","m","1","0">> >>

\* C30 where the comparator is a consistent order (not a claim's formula)
OrderedWhereConsistent ==
    /\ \A sd \in SortDescriptors :
          (sd.col # NoCol /\ ConsistentOn(sd, SortInput)) =>
              InClaimedOrder(sd, sortRows(sd, SortInput))
    /\ rawRows = NaturalData.rows =>
          ValuesOf(sortRows([col |-> ColNotes, dir |-> "asc"], rawRows), ColNotes) =
              << <<"2">>, <<"1","0">>, <<"i","t","e","m","9">>, <<"i","t","e","m","1","0">> >>

\* three matched rows go round in a circle under the claimed order, each strictly
\* before the next: no arrangement of them is in the claimed order
CircleOfThree ==
    /\ lastOp = "sort"
    /\ \E a, b, c \in Range(filteredRows) :
          /\ ClaimedOrder(sortState, a, b) < 0
          /\ ClaimedOrder(sortState, b, c) < 0
          /\ ClaimedOrder(sortState, c, a) < 0

\* the example of C30, shown after a click on the header of the values' column
NaturalExampleSorted ==
    /\ lastOp = "sort"
    /\ sortState = [col |-> ColNotes, dir |-> "asc"]
    /\ ValuesOf(filteredRows, ColNotes) =
          << <<"2">>, <<"1","0">>, <<"i","t","e","m","9">>, <<"i","t","e","m","1","0">> >>

\* C31 (the dataset is fixed): every step other than a load leaves the raw row
\* sequence, every row's values and the column sequence as they were.
C31_DatasetFixed == [][lastOp' # "load" => (rawRows' = rawRows /\ columns' = columns)]_vars

\* C31 witness: the table has been sorted into another order than the file's
\* (B, A, A), and the raw rows are the file's rows in the file's order
C31_Witness ==
    /\ lastOp = "sort"
    /\ rawRows = SmallData.rows
    /\ columns = SmallData.columns
    /\ sortState = [col |-> ColModel, dir |-> "desc"]
    /\ Len(filteredRows) = Len(rawRows)
    /\ filteredRows # rawRows

\* the same frame for the steps of the preset store, when the store is also
\* written from outside the page
StoreStepsKeepDataset ==
    [][lastOp' \in {"save", "rename", "delete", "preset", "missing", "none", "storage"}
          => (rawRows' = rawRows /\ columns' = columns)]_vars

\* a preset has been deleted over a loaded dataset
DeletedOverDataset == lastOp = "delete" /\ rawRows = SmallData.rows /\ presets = <<>>

\* the table has been exported over a loaded dataset
ExportedOverDataset ==
    lastOp = "export" /\ rawRows = SmallData.rows /\ Len(exportFilteredCsv(Cur)) = 3

\* every descriptor of st is collapsed, and every column has one
AllCollapsed(st, cols) ==
    /\ Range(cols) \subseteq DOMAIN st.columns
    /\ \A c \in DOMAIN st.columns : st.columns[c].collapsed = TRUE

\* C32 (apply closes the panels): right after an Apply, every column has a
\* descriptor in the applied and in the draft state, and the collapsed flag of
\* every descriptor of both states is true.
C32_ApplyClosesPanels ==
    lastOp = "apply" => (AllCollapsed(appliedState, columns) /\ AllCollapsed(draftState, columns))

\* C32 witness: an Apply has committed a selection made in an option panel
\* (ticking an option leaves its panel open), and every panel is closed
C32_Witness ==
    /\ lastOp = "apply"
    /\ rawRows # <<>>
    /\ \E c \in Range(columns) :
          /\ appliedState.columns[c].type = "multi"
          /\ appliedState.columns[c].value.a # <<>>
    /\ AllCollapsed(appliedState, columns)
    /\ AllCollapsed(draftState, columns)

\* an Apply step taken with a panel open closes it
ApplyClosesOpenPanel ==
    [][(lastOp' = "apply" /\ \E c \in DOMAIN draftState.columns : ~draftState.columns[c].collapsed)
          => (AllCollapsed(appliedState', columns') /\ AllCollapsed(draftState', columns'))]_vars

\* Apply is enabled while a panel is open
ApplyEnabledPanelOpen ==
    /\ ~btnApplyDisabled
    /\ \E c \in DOMAIN draftState.columns : ~draftState.columns[c].collapsed

\* C33 (as claimed): while a parse started by a file selection is in flight, the
\* only steps taken are its callbacks: the load that replaces the dataset, or
\* its failure.
C33_NoOverlap == [][pending > 0 => lastOp' \in {"load", "loadError"}]_vars

\* an Apply has committed a filter on the previous dataset while the parse of
\* the next file was in flight
AppliedWhileParsing ==
    /\ pending > 0
    /\ lastOp = "apply"
    /\ FilterActive(appliedState)
    /\ Len(filteredRows) < Len(rawRows)

\* whatever was done while the parse was in flight, its complete callback
\* leaves the fresh filters of the new dataset
LoadOverridesInterleaved ==
    lastOp = "load" =>
        /\ FreshFilters(appliedState, columns, rawRows)
        /\ FreshFilters(draftState, columns, rawRows)
        /\ sortState = DefaultSort
        /\ filteredRows = rawRows

\* before the first load no step other than a file selection and a parse
\* callback is taken
NoOverlapBeforeFirstLoad ==
    [][(pending > 0 /\ ~controlsEnabled) => lastOp' \in {"select", "load", "loadError"}]_vars

\* the operations that rebuild the filter controls
Rebuilds == {"load", "edit", "apply", "clear", "sort", "preset"}

\* is the column outside the always-multi set?
NotForced(c) == ToLowerCase(Trim(c)) \notin FORCE_MULTI_COLUMNS

\* draft descriptors a reclassification may meet: a text filter and a
\* multi-select, each holding a value
DraftSamples ==
    { Descriptor("text", Str(QueryText), FALSE), Descriptor("multi", Arr(<< <<"A">> >>), TRUE) }

\* C34 (draft reclassification): after every operation that rebuilds the
\* controls on a dataset with rows, each non-forced column's draft type is the
\* classification of its facet counts under the applied filters (multi iff 1..30
\* distinct non-empty values among the rows passing the other applied filters)
\* and its value fits that type; and the reclassification of a descriptor of the
\* other type gives the empty value of the new type, of the same type gives the
\* descriptor unchanged.
C34_DraftReclassification ==
    (rawRows # <<>> /\ lastOp \in Rebuilds) =>
        \A c \in {x \in Range(columns) : NotForced(x)} :
            LET type == SpecClassify(c, SpecDistinct(appliedState, columns, rawRows, c)) IN
            /\ c \in DOMAIN draftState.columns
            /\ draftState.columns[c].type = type
            /\ WellTyped(draftState.columns[c])
            /\ \A f \in DraftSamples :
                  LET r == ReclassifyDraft(c, f,
                              getFacetCountsForColumn(appliedState, columns, rawRows, c))
                  IN  /\ r.type = type
                      /\ r.collapsed = f.collapsed
                      /\ r.value = IF f.type = type THEN f.value ELSE EmptyValue(type)

\* C34 witness: a filter applied on Model leaves no value of Site to choose, and
\* the draft Site filter has become an empty text filter while the applied one
\* is still a multi-select
C34_Witness ==
    /\ lastOp \in Rebuilds
    /\ rawRows = SmallData.rows
    /\ FilterActive(appliedState)
    /\ appliedState.columns[ColSite].type = "multi"
    /\ draftState.columns[ColSite].type = "text"
    /\ draftState.columns[ColSite].value = Str(<<>>)
    /\ SpecDistinct(appliedState, columns, rawRows, ColSite) = 0

\* a step of an edit, an Apply or a header click that changes a draft
\* descriptor's type leaves it with the empty value of the new type
DraftFlipResets ==
    [][(lastOp' \in {"edit", "apply", "sort"} /\ rawRows' # <<>>) =>
          \A c \in DOMAIN draftState.columns \cap DOMAIN draftState'.columns :
              draftState'.columns[c].type # draftState.columns[c].type
                  => draftState'.columns[c].value = EmptyValue(draftState'.columns[c].type)]_vars

\* an Apply has just turned the draft Site filter from a multi-select into a
\* text filter
FlippedByApply ==
    /\ lastOp = "apply"
    /\ rawRows = SmallData.rows
    /\ appliedState.columns[ColSite].type = "multi"
    /\ draftState.columns[ColSite].type = "text"

\* filter states a repair may meet: the empty one and the filters of the stored
\* presets, well-formed, of an older format and malformed
SampleStates ==
    {EmptyState} \cup {[global |-> p.global, columns |-> p.columns] : p \in StoredPayloads}

\* the program states to repair: the current one, and the current dataset under
\* every pair of sample states
RepairInputs ==
    {Cur} \cup {[Cur EXCEPT !.appliedState = a, !.draftState = d] :
                    a \in SampleStates, d \in SampleStates}

\* C35 (idempotence of the repair): in every reachable state, and for the
\* current dataset under every pair of sample applied and draft states, running
\* buildFiltersUI (ensureStateSchemas, then the reclassification) a second time
\* leaves the applied and the draft state as the first run left them.
C35_RepairIdempotent ==
    \A m \in RepairInputs :
        LET once == buildFiltersUI(m) IN
        /\ buildFiltersUI(once).appliedState = once.appliedState
        /\ buildFiltersUI(once).draftState = once.draftState

\* C35 witness: on a loaded dataset, the first run repairs a malformed applied
\* state, fills in a missing descriptor and reclassifies a draft descriptor
C35_Witness ==
    /\ rawRows # <<>>
    /\ PresetDrift \in Range(presets)
    /\ \E m \in RepairInputs :
          LET once == buildFiltersUI(m) IN
          /\ \E c \in Range(columns) \cap DOMAIN m.appliedState.columns :
                ~WellTyped(m.appliedState.columns[c])
          /\ \A c \in Range(columns) : WellTyped(once.appliedState.columns[c])
          /\ DOMAIN m.draftState.columns # DOMAIN once.draftState.columns
          /\ \E c \in DOMAIN m.draftState.columns :
                once.draftState.columns[c].type # m.draftState.columns[c].type
          /\ buildFiltersUI(once).draftState = once.draftState

\* the columns whose applied descriptor is a multi-select
MultiColumns ==
    {c \in Range(columns) : c \in DOMAIN appliedState.columns
                            /\ appliedState.columns[c].type = "multi"}

\* the applied selection of a multi column
AppliedSelection(c) ==
    IF IsArray(appliedState.columns[c].value) THEN Range(appliedState.columns[c].value.a) ELSE {}

\* the options of a column: its values in the rows, and the selected ones
OptionsFor(c) ==
    ({Trim(Cell(rawRows[i], c)) : i \in DOMAIN rawRows}
        \cup {Trim(Cell(filteredRows[i], c)) : i \in DOMAIN filteredRows}
        \cup AppliedSelection(c)) \ {<<>>}

\* the number of matched rows whose value in c is v
MatchedWith(c, v) == Cardinality({i \in DOMAIN filteredRows : Trim(Cell(filteredRows[i], c)) = v})

\* facetCounts(c)[v], 0 if absent
FacetCount(c, v) == CountOf(getFacetCountsForColumn(appliedState, columns, rawRows, c), v)

\* C36 (as claimed): in every state, for every multi column c and every option
\* v, when c's applied filter is inactive or v is in c's applied selection, the
\* facet count of v in c is the number of matched rows whose value in c is v.
C36_FacetCountsPredict ==
    \A c \in MultiColumns : \A v \in OptionsFor(c) :
        (AppliedSelection(c) = {} \/ v \in AppliedSelection(c)) => FacetCount(c, v) = MatchedWith(c, v)

\* the same on datasets with at least one row
FacetCountsPredictNonEmpty == (rawRows # <<>>) => C36_FacetCountsPredict

\* the applied state with v alone selected in c
WithSelected(c, v) == [appliedState EXCEPT !.columns[c].value = Arr(<<v>>)]

\* the facet count of an option of a column without an active filter is the
\* number of rows with that value that match once the option is selected, the
\* other filters and the global search unchanged
CountsPredictSelection ==
    \A c \in MultiColumns : \A v \in OptionsFor(c) :
        AppliedSelection(c) = {} =>
            FacetCount(c, v) = Len(FilterRows(WithSelected(c, v), columns, rawRows))

\* a selection and a global search are applied; the count of the selected option
\* is the number of matched rows holding it, and the count of an option that is
\* not selected is greater than the number of matched rows holding it
CountsUnderSelection ==
    /\ rawRows # <<>>
    /\ Trim(appliedState.global) # <<>>
    /\ \E c \in MultiColumns :
          /\ \E v \in AppliedSelection(c) : FacetCount(c, v) = MatchedWith(c, v) /\ MatchedWith(c, v) > 0
          /\ \E v \in OptionsFor(c) \ AppliedSelection(c) : FacetCount(c, v) > MatchedWith(c, v)

\* the counts of a dataset without rows next to the matched rows of the
\* previous one
CountsOfNoRows ==
    /\ rawRows = <<>>
    /\ \E c \in MultiColumns : \E v \in OptionsFor(c) : FacetCount(c, v) = 0 /\ MatchedWith(c, v) > 0

\* in program state m nothing is pending, and a further Apply changes neither
\* the applied state, the draft state, the matched rows nor a facet count
ConvergedIn(m) ==
    /\ ~isDirty(m.appliedState, m.draftState)
    /\ applyClickHandler(m).appliedState = m.appliedState
    /\ applyClickHandler(m).draftState = m.draftState
    /\ applyClickHandler(m).filteredRows = m.filteredRows
    /\ FacetCountsOf(applyClickHandler(m)) = FacetCountsOf(m)

Converged == ConvergedIn(Cur)

\* C37 (apply converges): in every behaviour in which, from some point on,
\* Apply has been invoked and nothing else is done (the user clicking Apply as
\* long as it is enabled, and editing nothing), the program reaches and stays in
\* a state where isDirty() is false and a further apply() changes neither
\* applied, draft, the matched rows nor any facet count.
C37_ApplyConverges == (<>[](lastOp = "apply")) => (<>[]Converged)

\* C37 witness: a second Apply has committed the Site filter that the first
\* Apply had turned into a text filter, and the program has converged with a
\* filter applied
C37_Witness ==
    /\ lastOp = "apply"
    /\ rawRows = SmallData.rows
    /\ FilterActive(appliedState)
    /\ appliedState.columns[ColSite].type = "text"
    /\ Converged

\* an Apply has left pending changes behind: a further Apply is needed
DirtyAfterApply == lastOp = "apply" /\ rawRows # <<>> /\ isDirty(appliedState, draftState)

\* from every state, two applies in a row reach a converged state
ConvergedAfterTwo == ConvergedIn(applyClickHandler(applyClickHandler(Cur)))

\* C38 (as claimed): every preset in the store has a name that is not empty
\* once trimmed.
C38_NamesNonEmpty == \A k \in DOMAIN readPresets : Trim(readPresets[k].name) # <<>>

\* a rename has left a preset with the empty name
RenamedToNothing ==
    /\ lastOp = "rename"
    /\ \E k \in DOMAIN presets : presets[k].name = <<>>

\* save and delete steps add and leave no preset with an empty name
SaveDeleteKeepNames ==
    [][(lastOp' \in {"save", "delete"} /\ C38_NamesNonEmpty) => C38_NamesNonEmpty']_vars

\* a preset has been saved into the empty store and renamed
SavedThenRenamed ==
    /\ lastOp = "rename"
    /\ Len(presets) = 1
    /\ presets[1].name = <<"r">>


\* the operations of the single-phase variant that refresh the view
Refreshing == {"edit", "global", "clear", "preset"}

\* the matched rows are the raw rows that satisfy filterState, and every
\* multi-select shows the facet counts of its column under filterState
ViewFollows(st) ==
    /\ SameRows(filteredRows, PickRows(rawRows, SpecMatching(st, columns, rawRows, NoCol)))
    /\ \A i \in DOMAIN ui.filters :
          ui.filters[i].kind = "multi" =>
              ui.filters[i].counts.get = SpecFacetCounts(st, columns, rawRows, ui.filters[i].col)

\* C39 (single-phase variant): after every filter edit, global-search edit, clear
\* or preset load has finished, the matched rows shown are exactly the raw rows
\* that satisfy the filter state as it stands at the end of the operation, and the
\* facet counts shown for every column are those of that same final filter state.
C39_SingleRefresh == lastOp \in Refreshing => ViewFollows(filterState)

\* the rebuild at the end of the operation changed no column's type
NoTypeFlip ==
    \A c \in Range(columns) :
        /\ c \in DOMAIN filterState.columns
        /\ filterState'.columns[c].type = filterState.columns[c].type

\* an edit, a global-search edit or a clear whose rebuild flips no column's type
\* leaves the view following the final filter state
RefreshWithoutFlip ==
    [][(lastOp' \in {"edit", "global", "clear"} /\ NoTypeFlip) => ViewFollows(filterState)']_vars

\* a load leaves the view following the filter state
SingleLoadRefreshes == lastOp = "load" => ViewFollows(filterState)

\* whatever the operation, every row shown satisfies the final filter state: a
\* flip only empties a filter
ShownRowsSatisfy ==
    \A i \in DOMAIN filteredRows : SpecMatches(filterState, columns, filteredRows[i], NoCol)

\* reached: an edit has ended with fewer rows shown than the final filter state
\* admits, no filter of that state being active
FlipDroppedFilter ==
    /\ lastOp = "edit"
    /\ ~FilterActive(filterState)
    /\ Len(filteredRows) < Len(rawRows)


====
